---------------------------- MODULE Spec2Model ----------------------------
(***************************************************************************)
(* Profile collection and distribution engine of tcp-profiler (huginn):    *)
(*   foreign producer -> std mpsc queue -> ChannelBridge -> tokio mpsc     *)
(*   queue -> NetworkCollector::process_profiles (the actor) -> polling    *)
(*   task -> AppState (ArcSwap snapshot + tokio broadcast channel) ->      *)
(*   WebSocket sessions.                                                   *)
(*                                                                         *)
(* Conventions: Option<T> is a sequence of length 0 (None) or 1 (Some);    *)
(* a HashMap is a function over its key set; qualities are percentages     *)
(* (0.5 is 50); completeness is kept in tenths (0.4 is 4); Utc::now() is   *)
(* a logical clock.                                                        *)
(***************************************************************************)
EXTENDS Integers, Sequences, FiniteSets, TLC

(***************************************************************************)
(* Bounds of the model                                                     *)
(***************************************************************************)
\* events the foreign producer sends in one run
MaxEvents == 3
\* capacity of the bridged tokio mpsc queue (CollectorConfig.channel_buffer_size)
ChannelBufferSize == 2
\* commands a caller of the CollectorHandle issues in one run
MaxCommands == 2
\* capacity requested for the broadcast channel (1000 in AppState::new)
BroadcastCapacity == 1
\* API write operations (delete / clear / upsert) in one run
MaxApiOps == 1
\* polls of the profile polling task in one run
MaxPolls == 2
\* clear-all requests of the DELETE handler in one server run
MaxClears == 1

\* evaluates v once and applies Op to the value
Bind(v, Op(_)) == CHOOSE r \in {Op(x) : x \in {v}} : TRUE

None == << >>
Some(x) == << x >>
IsSome(o) == o # << >>
Unwrap(o) == o[1]

IPs == {"10.0.0.1", "10.0.0.2"}

(***************************************************************************)
(* huginn-core: AnalyzerConfig, TrafficProfile and its update methods      *)
(***************************************************************************)
\* AnalyzerConfig::default()
DefaultAnalyzerConfig ==
    [enable_tcp |-> TRUE, enable_http |-> TRUE, enable_tls |-> TRUE, min_quality |-> 0]

\* RawFingerprintData::default()
RawDefault ==
    [syn |-> None, syn_ack |-> None, mtu |-> None, uptime |-> None,
     http_request |-> None, http_response |-> None, tls_client |-> None,
     source_ip |-> None]

\* TrafficProfile::new(ip, port)
TrafficProfile_new(ip, port, now) ==
    [ip |-> ip, port |-> port, timestamp |-> now, raw_data |-> RawDefault,
     tcp |-> None, tcp_client |-> None, tcp_server |-> None,
     http |-> None, tls |-> None,
     metadata |-> [first_seen |-> now, last_updated |-> now,
                   packet_count |-> 0, completeness |-> 0]]

\* the completeness score of TrafficProfile::update_metadata, in tenths
Completeness(p) ==
    (IF IsSome(p.tcp) \/ IsSome(p.tcp_client) \/ IsSome(p.tcp_server) THEN 4 ELSE 0)
    + (IF IsSome(p.http) THEN 3 ELSE 0)
    + (IF IsSome(p.tls) THEN 3 ELSE 0)

\* TrafficProfile::update_metadata
update_metadata(p, now) ==
    [p EXCEPT !.metadata = [@ EXCEPT !.last_updated = now,
                                     !.packet_count = @ + 1,
                                     !.completeness = Completeness(p)]]

update_tcp(p, tcp, now) == update_metadata([p EXCEPT !.tcp = Some(tcp)], now)

update_tcp_client(p, tcp, now) == update_metadata([p EXCEPT !.tcp_client = Some(tcp)], now)

update_tcp_server(p, tcp, now) == update_metadata([p EXCEPT !.tcp_server = Some(tcp)], now)

\* TrafficProfile::update_http: sub-records replace, scalars only on better quality
update_http(p, http, now) ==
    IF IsSome(p.http)
    THEN LET e0 == Unwrap(p.http)
             e1 == IF IsSome(http.request) THEN [e0 EXCEPT !.request = http.request] ELSE e0
             e2 == IF IsSome(http.response) THEN [e1 EXCEPT !.response = http.response] ELSE e1
             e3 == IF http.quality > e2.quality
                   THEN [e2 EXCEPT !.browser = http.browser, !.quality = http.quality,
                                   !.signature = http.signature]
                   ELSE e2
         IN update_metadata([p EXCEPT !.http = Some(e3)], now)
    ELSE update_metadata([p EXCEPT !.http = Some(http)], now)

update_tls(p, tls, now) == update_metadata([p EXCEPT !.tls = Some(tls)], now)

\* faulty variant: an emptiness test that lets every profile through
is_empty_never(p) == FALSE

\* TrafficProfile::is_empty
is_empty(p) ==
    /\ p.tcp = None
    /\ p.tcp_client = None
    /\ p.tcp_server = None
    /\ p.http = None
    /\ p.tls = None

(***************************************************************************)
(* huginn-net FingerprintResult records (the foreign engine's events).     *)
(* sig identifies the observation; quality is os_matched / browser_matched *)
(* quality, 0 when there is no match.                                      *)
(***************************************************************************)
EmptyResult ==
    [syn |-> None, syn_ack |-> None, mtu |-> None, uptime |-> None,
     http_request |-> None, http_response |-> None, tls_client |-> None]

SynResult(ip, q, sig) ==
    [EmptyResult EXCEPT !.syn = Some([source |-> ip, quality |-> q, sig |-> sig])]

SynAckResult(srv, ip, q, sig) ==
    [EmptyResult EXCEPT !.syn_ack =
        Some([source |-> srv, destination |-> ip, quality |-> q, sig |-> sig])]

HttpRequestResult(ip, q, sig) ==
    [EmptyResult EXCEPT !.http_request = Some([source |-> ip, quality |-> q, sig |-> sig])]

HttpResponseResult(srv, ip, q, sig) ==
    [EmptyResult EXCEPT !.http_response =
        Some([source |-> srv, destination |-> ip, quality |-> q, sig |-> sig])]

TlsClientResult(ip, sig) ==
    [EmptyResult EXCEPT !.tls_client = Some([source |-> ip, sig |-> sig])]

MtuResult(ip, sig) ==
    [EmptyResult EXCEPT !.mtu = Some([source |-> ip, sig |-> sig])]

(***************************************************************************)
(* huginn-core: HuginnAnalyzer                                             *)
(***************************************************************************)
\* faulty variant: a choice that takes the sender of every sub-record, also of
\* the SYN-ACK and the HTTP response, whose sender is the server
extract_primary_ip_source(result) ==
    IF IsSome(result.syn) THEN Some(Unwrap(result.syn).source)
    ELSE IF IsSome(result.syn_ack) THEN Some(Unwrap(result.syn_ack).source)
    ELSE IF IsSome(result.http_request) THEN Some(Unwrap(result.http_request).source)
    ELSE IF IsSome(result.http_response) THEN Some(Unwrap(result.http_response).source)
    ELSE IF IsSome(result.tls_client) THEN Some(Unwrap(result.tls_client).source)
    ELSE IF IsSome(result.mtu) THEN Some(Unwrap(result.mtu).source)
    ELSE IF IsSome(result.uptime) THEN Some(Unwrap(result.uptime).source)
    ELSE None

\* HuginnAnalyzer::extract_primary_ip: first present sub-record wins
extract_primary_ip(result) ==
    IF IsSome(result.syn) THEN Some(Unwrap(result.syn).source)
    ELSE IF IsSome(result.syn_ack) THEN Some(Unwrap(result.syn_ack).destination)
    ELSE IF IsSome(result.http_request) THEN Some(Unwrap(result.http_request).source)
    ELSE IF IsSome(result.http_response) THEN Some(Unwrap(result.http_response).destination)
    ELSE IF IsSome(result.tls_client) THEN Some(Unwrap(result.tls_client).source)
    ELSE IF IsSome(result.mtu) THEN Some(Unwrap(result.mtu).source)
    ELSE IF IsSome(result.uptime) THEN Some(Unwrap(result.uptime).source)
    ELSE None

\* analyze_tcp_syn / analyze_tcp_syn_ack: None below the quality threshold
analyze_tcp(config, pkt) ==
    IF pkt.quality < config.min_quality
    THEN None
    ELSE Some([quality |-> pkt.quality, signature |-> pkt.sig])

\* analyze_http_request: a request sub-record, never a response
analyze_http_request(config, req) ==
    IF req.quality < config.min_quality
    THEN None
    ELSE Some([browser |-> req.sig, quality |-> req.quality, signature |-> req.sig,
               request |-> Some([signature |-> req.sig, quality |-> req.quality]),
               response |-> None])

\* analyze_http_response: a response sub-record, never a request; analyze
\* does not call it
analyze_http_response(config, res) ==
    IF res.quality < config.min_quality
    THEN None
    ELSE Some([browser |-> res.sig, quality |-> res.quality, signature |-> res.sig,
               request |-> None,
               response |-> Some([signature |-> res.sig, quality |-> res.quality])])

\* analyze_tls_client: no threshold
analyze_tls_client(tls) == Some([ja4 |-> tls.sig])

\* HuginnAnalyzer::analyze, the SYN step
AnalyzeSyn(config, result, p, now) ==
    IF IsSome(result.syn)
    THEN LET syn == Unwrap(result.syn)
             p1 == [p EXCEPT !.raw_data.syn = Some(syn.sig)]
             a == IF config.enable_tcp THEN analyze_tcp(config, syn) ELSE None
         IN IF IsSome(a)
            THEN update_tcp(update_tcp_client(p1, Unwrap(a), now), Unwrap(a), now)
            ELSE p1
    ELSE p

\* HuginnAnalyzer::analyze, the SYN-ACK step
AnalyzeSynAck(config, result, p, now) ==
    IF IsSome(result.syn_ack)
    THEN LET sa == Unwrap(result.syn_ack)
             p1 == [p EXCEPT !.raw_data.syn_ack = Some(sa.sig)]
             a == IF config.enable_tcp THEN analyze_tcp(config, sa) ELSE None
         IN IF IsSome(a) THEN update_tcp_server(p1, Unwrap(a), now) ELSE p1
    ELSE p

\* HuginnAnalyzer::analyze, the HTTP request step
AnalyzeHttpRequest(config, result, p, now) ==
    IF IsSome(result.http_request)
    THEN LET req == Unwrap(result.http_request)
             p1 == [p EXCEPT !.raw_data.http_request = Some(req.sig)]
             a == IF config.enable_http THEN analyze_http_request(config, req) ELSE None
         IN IF IsSome(a) THEN update_http(p1, Unwrap(a), now) ELSE p1
    ELSE p

\* HuginnAnalyzer::analyze, the HTTP response step: raw data only
AnalyzeHttpResponse(result, p) ==
    IF IsSome(result.http_response)
    THEN [p EXCEPT !.raw_data.http_response = Some(Unwrap(result.http_response).sig)]
    ELSE p

\* HuginnAnalyzer::analyze, the TLS step
AnalyzeTls(config, result, p, now) ==
    IF IsSome(result.tls_client)
    THEN LET tls == Unwrap(result.tls_client)
             p1 == [p EXCEPT !.raw_data.tls_client = Some(tls.sig)]
         IN IF config.enable_tls
            THEN update_tls(p1, Unwrap(analyze_tls_client(tls)), now)
            ELSE p1
    ELSE p

\* HuginnAnalyzer::analyze, the MTU and uptime steps: raw data only
AnalyzeMtuUptime(result, p) ==
    LET p1 == IF IsSome(result.mtu)
              THEN [p EXCEPT !.raw_data.mtu = Some(Unwrap(result.mtu).sig)] ELSE p
    IN IF IsSome(result.uptime)
       THEN [p1 EXCEPT !.raw_data.uptime = Some(Unwrap(result.uptime).sig)] ELSE p1

\* the port of the endpoint an event's first sub-record names, 0 without one
EndpointPort(result) ==
    LET present == {f \in DOMAIN result : result[f] # None}
        ported == {f \in present : "port" \in DOMAIN Unwrap(result[f])}
    IN IF ported = {} THEN 0 ELSE Unwrap(result[CHOOSE f \in ported : TRUE]).port

\* faulty variant: a profile that takes the port of the packet's endpoint
ProfilePort_source(result) == EndpointPort(result)

\* TrafficProfile::new(ip, 0): the port of every profile analyze builds
ProfilePort(result) == 0

\* HuginnAnalyzer::analyze up to the emptiness check: the profile built from
\* the sub-records, in the order SYN, SYN-ACK, HTTP request, HTTP response,
\* TLS, MTU, uptime
AnalyzeAll(config, result, ip, now) ==
    LET p0 == [TrafficProfile_new(Unwrap(ip), ProfilePort(result), now)
                  EXCEPT !.raw_data.source_ip = ip]
        p1 == AnalyzeSyn(config, result, p0, now)
        p2 == AnalyzeSynAck(config, result, p1, now)
        p3 == AnalyzeHttpRequest(config, result, p2, now)
        p4 == AnalyzeHttpResponse(result, p3)
        p5 == AnalyzeTls(config, result, p4, now)
    IN AnalyzeMtuUptime(result, p5)

\* a sub-record of the event is below the quality threshold
BelowThreshold(config, result) ==
    \E f \in {"syn", "syn_ack", "http_request"} :
        result[f] # None /\ Unwrap(result[f]).quality < config.min_quality

\* faulty variant: an analyzer that gives the whole event up when one of its
\* sub-records is below the threshold
analyze_strict(config, result, now) ==
    LET ip == extract_primary_ip(result)
    IN IF ip = None \/ BelowThreshold(config, result)
       THEN None
       ELSE Bind(AnalyzeAll(config, result, ip, now),
                 LAMBDA p : IF is_empty(p) THEN None ELSE Some(p))

\* HuginnAnalyzer::analyze: Ok(None) without IP or without analysis data
analyze(config, result, now) ==
    LET ip == extract_primary_ip(result)
    IN IF ip = None
       THEN None
       ELSE Bind(AnalyzeAll(config, result, ip, now),
                 LAMBDA p : IF is_empty(p) THEN None ELSE Some(p))

(***************************************************************************)
(* huginn-collector: NetworkCollector (the aggregation actor's table)      *)
(***************************************************************************)
\* the table key: format!("{}:{}", profile.ip, profile.port)
ProfileKey(p) == p.ip \o ":" \o ToString(p.port)

\* NetworkCollector::merge_profiles
merge_profiles(existing, new) ==
    LET m1 == IF IsSome(new.tcp) THEN [existing EXCEPT !.tcp = new.tcp] ELSE existing
        m2 == IF IsSome(new.http) THEN [m1 EXCEPT !.http = new.http] ELSE m1
        m3 == IF IsSome(new.tls) THEN [m2 EXCEPT !.tls = new.tls] ELSE m2
        m4 == [m3 EXCEPT !.timestamp = new.timestamp,
                         !.metadata.last_updated = new.metadata.last_updated,
                         !.metadata.packet_count = @ + new.metadata.packet_count]
        score == (IF IsSome(m4.tcp) THEN 4 ELSE 0)
                 + (IF IsSome(m4.http) THEN 3 ELSE 0)
                 + (IF IsSome(m4.tls) THEN 3 ELSE 0)
    IN [m4 EXCEPT !.metadata.completeness = score]

\* HashMap::insert / get_mut on the profile table
TablePut(table, key, p) ==
    [k \in DOMAIN table \cup {key} |-> IF k = key THEN p ELSE table[k]]

\* HashMap::remove
TableRemove(table, key) == [k \in DOMAIN table \ {key} |-> table[k]]

EmptyTable == [k \in {} |-> None]

\* NetworkCollector::process_fingerprint_result, given the analyzer's answer
ApplyAnalysis(table, a) ==
    IF IsSome(a)
    THEN LET profile == Unwrap(a)
             key == ProfileKey(profile)
         IN IF key \in DOMAIN table
            THEN TablePut(table, key, merge_profiles(table[key], profile))
            ELSE TablePut(table, key, profile)
    ELSE table

\* NetworkCollector::process_fingerprint_result: the table after one event
process_fingerprint_result(config, table, result, now) ==
    Bind(analyze(config, result, now), LAMBDA a : ApplyAnalysis(table, a))

(***************************************************************************)
(* State                                                                   *)
(***************************************************************************)
VARIABLES
    producer_alive,   \* the foreign engine still holds sync_sender
    sent,             \* events the producer has sent so far
    sync_queue,       \* std::sync::mpsc channel (unbounded)
    bridge_pc,        \* ChannelBridge::start_blocking: "none", "recv", "send", "ok", "err"
    bridge_held,      \* the event between recv() and blocking_send()
    async_queue,      \* tokio mpsc channel of capacity channel_buffer_size
    actor_running,    \* process_profiles is in its loop (its receivers are alive)
    profiles,         \* NetworkCollector.profiles
    clock,            \* Utc::now()
    command_queue,    \* tokio mpsc channel of CollectorCommand
    call,             \* per caller: the oneshot of its command in flight
    issued,           \* commands issued by the client so far
    shutdown_queue,   \* messages in the shutdown channel (capacity 1)
    stop_pc,          \* CollectorHandle::stop: "idle", "await_actor", "join_bridge", "done"
    stop_result,      \* what stop() returned
    dequeued,         \* history: sigs the bridge took from sync_queue, in order
    forwarded,        \* history: sigs the bridge put into async_queue, in order
    applied,          \* history: what the actor processed, in order
    snapshot,         \* AppState.profiles: the table the ArcSwap points to
    published,        \* history: every table handed to ArcSwap::store (and the first)
    bcast,            \* every ProfileUpdate sent on updates_tx, in order
    poll_pc,          \* polling task: "idle", "waiting", "notify", "ended"
    poll_old,         \* update_profiles: old_profiles
    poll_new,         \* update_profiles: new_profiles
    poll_todo,        \* update_profiles: keys its loops have not visited yet
    polls,            \* polls started so far
    poll_at,          \* history: how much of applied the last polled table reflects
    api_pc,           \* API write in flight: "idle", "store", "notify"
    api_op,           \* its operation and arguments
    api_cur,          \* the table it loaded
    api_todo,         \* clear_profiles: keys not notified yet
    api_ops,          \* API writes started so far
    ws_pc,            \* handle_websocket: "none", "initial", "open", "lagged", "closed"
    ws_next,          \* updates_rx: position of the next message to receive
    ws_log,           \* history: the messages sent to the WebSocket client
    peer_pc,          \* a second WebSocket session: "none", "open", "closed"
    peer_next,        \* its updates_rx: position of the next message to receive
    peer_log,         \* history: what its recv() calls returned
    reader_view,      \* the Arc a GET handler holds from get_profiles()
    win_base,         \* history: the snapshot when no write was in flight
    win_from,         \* history: the notifications sent by then
    win_ops,          \* history: the writes started since then
    collector_config, \* the CollectorConfig handed to NetworkCollector::new
    collector         \* NetworkCollector: "none", "built", "started", "Err(Configuration)"

pipeVars == <<producer_alive, sent, sync_queue, bridge_pc, bridge_held, async_queue,
              dequeued, forwarded>>

actorVars == <<actor_running, profiles, clock, command_queue, call, applied>>

stopVars == <<shutdown_queue, stop_pc, stop_result>>

stateVars == <<snapshot, published, bcast>>

pollVars == <<poll_pc, poll_old, poll_new, poll_todo, polls, poll_at>>

apiVars == <<api_pc, api_op, api_cur, api_todo, api_ops>>

peerVars == <<peer_pc, peer_next, peer_log>>

wsVars == <<ws_pc, ws_next, ws_log, peerVars>>

winVars == <<win_base, win_from, win_ops>>

appVars == <<stateVars, pollVars, apiVars, wsVars, reader_view, winVars>>

ctorVars == <<collector_config, collector>>

vars == <<pipeVars, actorVars, stopVars, issued, appVars, ctorVars>>

\* CollectorConfig.analyzer of the running collector
analyzer_config == DefaultAnalyzerConfig

(***************************************************************************)
(* CollectorConfig (config.rs).  min_quality is an f64: a number or NaN.   *)
(* Numbers are written in hundredths, as the quality scores are, so 1.0 is *)
(* F64(100).  Every ordered comparison with NaN is false.                  *)
(***************************************************************************)
F64(v) == [nan |-> FALSE, v |-> v]

NaN == [nan |-> TRUE, v |-> 0]

F64Lt(a, b) == ~a.nan /\ ~b.nan /\ a.v < b.v

F64Gt(a, b) == ~a.nan /\ ~b.nan /\ a.v > b.v

\* impl Default for CollectorConfig, with the channel buffer of this model
RunningConfig ==
    [interface |-> "eth0", buffer_size |-> 100,
     channel_buffer_size |-> ChannelBufferSize, min_quality |-> F64(0)]

\* CollectorConfig::validate: "Ok" or the message of the first failed check
validate(c) ==
    IF c.interface = "" THEN "Interface cannot be empty"
    ELSE IF c.buffer_size = 0 THEN "Buffer size must be greater than 0"
    ELSE IF c.channel_buffer_size = 0 THEN "Channel buffer size must be greater than 0"
    ELSE IF F64Lt(c.min_quality, F64(0)) \/ F64Gt(c.min_quality, F64(100))
         THEN "Minimum quality must be between 0.0 and 1.0"
    ELSE "Ok"

\* capacity of the command channel
CommandCapacity == 100

Callers == {"client", "poller"}

NoCall == [state |-> "none"]

NoOp == [op |-> "none"]

\* format!("{}:{}", ip, 0): the keys the actor can hold
Keys == {ip \o ":" \o ToString(0) : ip \in IPs}

\* the FingerprintResult records the foreign engine may hand over as its sig-th event
ProducerEvents(sig) ==
    {SynResult(ip, 90, sig) : ip \in IPs} \cup {MtuResult("10.0.0.1", sig)}

\* the sig of an event (each sub-record carries it)
SigOf(result) ==
    IF IsSome(result.syn) THEN Unwrap(result.syn).sig
    ELSE IF IsSome(result.syn_ack) THEN Unwrap(result.syn_ack).sig
    ELSE IF IsSome(result.http_request) THEN Unwrap(result.http_request).sig
    ELSE IF IsSome(result.http_response) THEN Unwrap(result.http_response).sig
    ELSE IF IsSome(result.tls_client) THEN Unwrap(result.tls_client).sig
    ELSE IF IsSome(result.mtu) THEN Unwrap(result.mtu).sig
    ELSE IF IsSome(result.uptime) THEN Unwrap(result.uptime).sig
    ELSE 0

Init ==
    /\ producer_alive = TRUE
    /\ sent = 0
    /\ sync_queue = << >>
    /\ bridge_pc = "recv"
    /\ bridge_held = None
    /\ async_queue = << >>
    /\ actor_running = TRUE
    /\ profiles = EmptyTable
    /\ clock = 1
    /\ command_queue = << >>
    /\ call = [c \in Callers |-> NoCall]
    /\ issued = 0
    /\ shutdown_queue = 0
    /\ stop_pc = "idle"
    /\ stop_result = "none"
    /\ dequeued = << >>
    /\ forwarded = << >>
    /\ applied = << >>
    /\ snapshot = EmptyTable
    /\ published = {EmptyTable}
    /\ bcast = << >>
    /\ poll_pc = "idle"
    /\ poll_old = EmptyTable
    /\ poll_new = EmptyTable
    /\ poll_todo = {}
    /\ polls = 0
    /\ poll_at = 0
    /\ api_pc = "idle"
    /\ api_op = NoOp
    /\ api_cur = EmptyTable
    /\ api_todo = {}
    /\ api_ops = 0
    /\ ws_pc = "none"
    /\ ws_next = 0
    /\ ws_log = << >>
    /\ peer_pc = "none"
    /\ peer_next = 0
    /\ peer_log = << >>
    /\ reader_view = None
    /\ win_base = EmptyTable
    /\ win_from = 0
    /\ win_ops = << >>
    /\ collector_config = RunningConfig
    /\ collector = "started"

(***************************************************************************)
(* The foreign engine: sends into the std mpsc channel, may go away        *)
(***************************************************************************)
\* sync_sender.send(result): fails once the bridge has dropped the receiver
ProducerSendOf(events) ==
    /\ producer_alive
    /\ sent < MaxEvents
    /\ bridge_pc \in {"recv", "send"}
    /\ \E e \in events :
          sync_queue' = Append(sync_queue, e)
    /\ sent' = sent + 1
    /\ UNCHANGED <<ctorVars, producer_alive, bridge_pc, bridge_held, async_queue, dequeued,
                   forwarded, actorVars, stopVars, issued, appVars>>

ProducerSend == ProducerSendOf(ProducerEvents(sent + 1))

\* the engine's thread ends and drops sync_sender
ProducerDrop ==
    /\ producer_alive
    /\ producer_alive' = FALSE
    /\ UNCHANGED <<ctorVars, sent, sync_queue, bridge_pc, bridge_held, async_queue, dequeued,
                   forwarded, actorVars, stopVars, issued, appVars>>

(***************************************************************************)
(* ChannelBridge::start_blocking                                           *)
(***************************************************************************)
\* what sync_receiver.recv() hands out of the queue, and what it leaves
SyncRecvTake(q) == Head(q)

\* faulty variant: a send that loses the event instead of waiting or failing
AsyncEnqueue_lossy(q, e) == IF Len(q) >= 1 THEN q ELSE Append(q, e)

\* faulty variant: a queue that hands out the newest event first
AsyncEnqueue_front(q, e) == << e >> \o q

\* where blocking_send puts the event in the async queue
AsyncEnqueue(q, e) == Append(q, e)

\* history helper: the sigs of what a send added at the tail of the async queue
Enqueued(before, after) ==
    [i \in 1..(Len(after) - Len(before)) |-> SigOf(after[Len(before) + i])]

\* Ok(result) = self.sync_receiver.recv()
BridgeRecv ==
    /\ bridge_pc = "recv"
    /\ sync_queue # << >>
    /\ bridge_held' = Some(SyncRecvTake(sync_queue))
    /\ sync_queue' = Tail(sync_queue)
    /\ dequeued' = Append(dequeued, SigOf(SyncRecvTake(sync_queue)))
    /\ bridge_pc' = "send"
    /\ UNCHANGED <<ctorVars, producer_alive, sent, async_queue, forwarded, actorVars, stopVars,
                   issued, appVars>>

\* faulty variant: a recv() that fails as soon as the sender is gone
SyncRecvFails_early == ~producer_alive

\* recv() of std::sync::mpsc fails only when the queue is drained and every
\* sender is gone
SyncRecvFails == sync_queue = << >> /\ ~producer_alive

\* Err(_) = self.sync_receiver.recv(): queue drained and every sender gone
BridgeDisconnect ==
    /\ bridge_pc = "recv"
    /\ SyncRecvFails
    /\ bridge_pc' = "ok"
    /\ UNCHANGED <<ctorVars, producer_alive, sent, sync_queue, bridge_held, async_queue, dequeued,
                   forwarded, actorVars, stopVars, issued, appVars>>

\* Ok(_) = self.async_sender.blocking_send(result): waits for a free slot
BridgeSend ==
    /\ bridge_pc = "send"
    /\ actor_running
    /\ Len(async_queue) < ChannelBufferSize
    /\ async_queue' = AsyncEnqueue(async_queue, Unwrap(bridge_held))
    /\ forwarded' = forwarded \o Enqueued(async_queue, async_queue')
    /\ bridge_held' = None
    /\ bridge_pc' = "recv"
    /\ UNCHANGED <<ctorVars, producer_alive, sent, sync_queue, dequeued, actorVars, stopVars,
                   issued, appVars>>

\* faulty variant: a bridge that gives the event up and goes on receiving
BridgeSendFail_retry ==
    /\ bridge_pc = "send"
    /\ ~actor_running
    /\ bridge_held' = None
    /\ bridge_pc' = "recv"
    /\ UNCHANGED <<ctorVars, producer_alive, sent, sync_queue, async_queue, dequeued, forwarded,
                   actorVars, stopVars, issued, appVars>>

\* Err(e) = self.async_sender.blocking_send(result): the receiver is dropped
BridgeSendFail ==
    /\ bridge_pc = "send"
    /\ ~actor_running
    /\ bridge_held' = None
    /\ bridge_pc' = "err"
    /\ UNCHANGED <<ctorVars, producer_alive, sent, sync_queue, async_queue, dequeued, forwarded,
                   actorVars, stopVars, issued, appVars>>

(***************************************************************************)
(* NetworkCollector::process_profiles: the select loop of the actor        *)
(***************************************************************************)
\* faulty variant: recv() that hands out the newest queued event
AsyncRecvTake_newest(q) == q[Len(q)]

\* what receiver.recv() hands out of the async queue
AsyncRecvTake(q) == Head(q)

\* faulty variant: a reply built from a table that misses the newest profile state
CommandReply_stale(cmd, table) ==
    CASE cmd.type = "GetProfiles" -> EmptyTable
      [] cmd.type = "GetProfile" -> None
      [] cmd.type = "GetProfileCount" -> 0
      [] OTHER -> None

\* the reply of the actor to a command, from its table
CommandReply(cmd, table) ==
    CASE cmd.type = "GetProfiles" -> table
      [] cmd.type = "GetProfile" ->
            IF cmd.key \in DOMAIN table THEN Some(table[cmd.key]) ELSE None
      [] cmd.type = "GetProfileCount" -> Cardinality(DOMAIN table)
      [] OTHER -> None

\* faulty variant: an event arm that leaves the loop when the event gives no profile
ActorEvent_abort ==
    /\ actor_running
    /\ async_queue # << >>
    /\ LET result == AsyncRecvTake(async_queue)
       IN /\ profiles' = process_fingerprint_result(analyzer_config, profiles, result, clock)
          /\ applied' = Append(applied, [kind |-> "event", result |-> result, now |-> clock])
          /\ actor_running' = (extract_primary_ip(result) # None)
    /\ async_queue' = Tail(async_queue)
    /\ clock' = clock + 1
    /\ UNCHANGED <<ctorVars, producer_alive, sent, sync_queue, bridge_pc, bridge_held, dequeued,
                   forwarded, command_queue, call, stopVars, issued, appVars>>

\* Some(result) = receiver.recv() => self.process_fingerprint_result(result),
\* for a collector whose analyzer was built with config
ActorEventWith(config) ==
    /\ actor_running
    /\ async_queue # << >>
    /\ LET result == AsyncRecvTake(async_queue)
       IN /\ profiles' = process_fingerprint_result(config, profiles, result, clock)
          /\ applied' = Append(applied, [kind |-> "event", result |-> result, now |-> clock])
    /\ async_queue' = Tail(async_queue)
    /\ clock' = clock + 1
    /\ UNCHANGED <<ctorVars, producer_alive, sent, sync_queue, bridge_pc, bridge_held, dequeued,
                   forwarded, actor_running, command_queue, call, stopVars, issued, appVars>>

\* Some(result) = receiver.recv() => self.process_fingerprint_result(result)
ActorEvent == ActorEventWith(analyzer_config)

\* faulty variant: a command arm polled only when no event is ready, as
\* under `biased;` with the event arm first
ActorQuery_biased ==
    /\ actor_running
    /\ async_queue = << >>
    /\ command_queue # << >>
    /\ Head(command_queue).type # "ClearProfiles"
    /\ LET cmd == Head(command_queue)
       IN call' = [call EXCEPT ![cmd.caller] =
                      [state |-> "answered", cmd |-> cmd,
                       value |-> CommandReply(cmd, profiles), at |-> Len(applied)]]
    /\ command_queue' = Tail(command_queue)
    /\ UNCHANGED <<ctorVars, pipeVars, actor_running, profiles, clock, applied, stopVars, issued, appVars>>

\* Some(command) = command_receiver.recv(), the three queries
ActorQuery ==
    /\ actor_running
    /\ command_queue # << >>
    /\ Head(command_queue).type # "ClearProfiles"
    /\ LET cmd == Head(command_queue)
       IN call' = [call EXCEPT ![cmd.caller] =
                      [state |-> "answered", cmd |-> cmd,
                       value |-> CommandReply(cmd, profiles), at |-> Len(applied)]]
    /\ command_queue' = Tail(command_queue)
    /\ UNCHANGED <<ctorVars, pipeVars, actor_running, profiles, clock, applied, stopVars, issued, appVars>>

\* CollectorCommand::ClearProfiles => self.profiles.clear()
ActorClear ==
    /\ actor_running
    /\ command_queue # << >>
    /\ Head(command_queue).type = "ClearProfiles"
    /\ profiles' = EmptyTable
    /\ applied' = Append(applied, [kind |-> "clear"])
    /\ command_queue' = Tail(command_queue)
    /\ UNCHANGED <<ctorVars, pipeVars, actor_running, clock, call, stopVars, issued, appVars>>

\* faulty variant: a shutdown arm that takes the signal and goes on looping
ActorShutdown_continue ==
    /\ actor_running
    /\ shutdown_queue > 0
    /\ shutdown_queue' = 0
    /\ UNCHANGED <<ctorVars, pipeVars, actor_running, profiles, clock, command_queue, call, applied,
                   stop_pc, stop_result, issued, appVars>>

\* _ = shutdown.recv() => break; the task ends and drops its three receivers:
\* queued events are lost and the oneshot of every queued command is dropped
ActorShutdown ==
    /\ actor_running
    /\ shutdown_queue > 0
    /\ actor_running' = FALSE
    /\ shutdown_queue' = 0
    /\ async_queue' = << >>
    /\ command_queue' = << >>
    /\ call' = [c \in Callers |->
                  IF call[c].state = "pending" THEN [state |-> "closed"] ELSE call[c]]
    /\ UNCHANGED <<ctorVars, producer_alive, sent, sync_queue, bridge_pc, bridge_held, dequeued,
                   forwarded, profiles, clock, applied, stop_pc, stop_result, issued, appVars>>

(***************************************************************************)
(* CollectorHandle: commands of a caller, and stop()                       *)
(***************************************************************************)
ClientCommands ==
    {[type |-> "GetProfiles", caller |-> "client"],
     [type |-> "GetProfileCount", caller |-> "client"],
     [type |-> "ClearProfiles", caller |-> "client"]}
    \cup {[type |-> "GetProfile", key |-> "10.0.0.1:0", caller |-> "client"]}

\* get_profiles / get_profile / get_profile_count: command_sender.send(..).await
\* then rx.await; clear_profiles: the send alone. The send fails once the
\* actor has dropped the receiver.
ClientCallOf(commands) ==
    /\ stop_pc = "idle"
    /\ call["client"].state = "none"
    /\ issued < MaxCommands
    /\ Len(command_queue) < CommandCapacity
    /\ issued' = issued + 1
    /\ \E cmd \in commands :
          IF ~actor_running
          THEN /\ call' = [call EXCEPT !["client"] = [state |-> "closed"]]
               /\ UNCHANGED command_queue
          ELSE /\ command_queue' = Append(command_queue, cmd)
               /\ call' = IF cmd.type = "ClearProfiles"
                          THEN call
                          ELSE [call EXCEPT !["client"] = [state |-> "pending"]]
    /\ UNCHANGED <<ctorVars, pipeVars, actor_running, profiles, clock, applied, stopVars, appVars>>

ClientCall == ClientCallOf(ClientCommands)

\* rx.await returns: Ok(value) or the Channel error of a dropped oneshot
ClientReturn ==
    /\ call["client"].state \in {"answered", "closed"}
    /\ call' = [call EXCEPT !["client"] = NoCall]
    /\ UNCHANGED <<ctorVars, pipeVars, actor_running, profiles, clock, command_queue, applied,
                   stopVars, issued, appVars>>

\* stop(): sender.send(()).await on the shutdown channel, then the sender is dropped
StopSignal ==
    /\ stop_pc = "idle"
    /\ \A c \in Callers : call[c].state = "none"
    /\ shutdown_queue' = IF actor_running THEN 1 ELSE 0
    /\ stop_pc' = "await_actor"
    /\ UNCHANGED <<ctorVars, pipeVars, actorVars, stop_result, issued, appVars>>

\* faulty variant: an await that returns while the task is still running
ProcessorFinished_early == TRUE

\* the JoinHandle of the processor task is ready: process_profiles returned
ProcessorFinished == ~actor_running

\* the JoinHandle of the bridge thread is ready: start_blocking returned
BridgeFinished == bridge_pc \in {"ok", "err"}

\* handle.await on the processor task: Ok(Ok(())) once process_profiles returned
StopAwaitActor ==
    /\ stop_pc = "await_actor"
    /\ ProcessorFinished
    /\ stop_pc' = "join_bridge"
    /\ UNCHANGED <<ctorVars, pipeVars, actorVars, shutdown_queue, stop_result, issued, appVars>>

\* handle.join() on the bridge thread: its Result is stop()'s result
StopJoinBridge ==
    /\ stop_pc = "join_bridge"
    /\ BridgeFinished
    /\ stop_pc' = "done"
    /\ stop_result' = IF bridge_pc = "ok" THEN "Ok" ELSE "Err(Channel)"
    /\ UNCHANGED <<ctorVars, pipeVars, actorVars, shutdown_queue, issued, appVars>>

Next ==
    \/ ProducerSend
    \/ ProducerDrop
    \/ BridgeRecv
    \/ BridgeDisconnect
    \/ BridgeSend
    \/ BridgeSendFail
    \/ ActorEvent
    \/ ActorQuery
    \/ ActorClear
    \/ ActorShutdown
    \/ ClientCall
    \/ ClientReturn
    \/ StopSignal
    \/ StopAwaitActor
    \/ StopJoinBridge

Spec == Init /\ [][Next]_vars

(***************************************************************************)
(* huginn-api: AppState (ArcSwap snapshot and broadcast channel)           *)
(***************************************************************************)
\* faulty variant: a channel that retains fewer messages than requested
NextPowerOfTwo_down(n) == n \div 2

RECURSIVE NextPowerOfTwo(_)
\* usize::next_power_of_two: tokio rounds the broadcast capacity up to it
NextPowerOfTwo(n) == IF n <= 1 THEN 1 ELSE 2 * NextPowerOfTwo((n + 1) \div 2)

\* the number of messages the broadcast channel retains
BufferLen == NextPowerOfTwo(BroadcastCapacity)

\* faulty variant: a store that writes the new entries into the table in place
ArcSwapStore_inplace(cur, new) ==
    [k \in DOMAIN cur \cup DOMAIN new |-> IF k \in DOMAIN new THEN new[k] ELSE cur[k]]

\* self.profiles.store(Arc::new(new)): the table readers load from then on
ArcSwapStore(cur, new) == new

\* history helper: does a table show the change a notification announces
Reflects(table, update_type, key, profile) ==
    IF update_type = "ProfileRemoved"
    THEN key \notin DOMAIN table
    ELSE key \in DOMAIN table /\ table[key] = Unwrap(profile)

\* ProfileUpdate; by and reflected are history fields: the operation that
\* sent it, and whether the snapshot showed the change when it was sent
ProfileUpdate(update_type, key, profile, by) ==
    [update_type |-> update_type, key |-> key, profile |-> profile, by |-> by,
     reflected |-> Reflects(snapshot, update_type, key, profile)]

\* the receivers of updates_tx that are alive
Receivers ==
    (IF ws_pc \in {"initial", "open", "lagged"} THEN {"ws"} ELSE {})
    \cup (IF peer_pc = "open" THEN {"peer"} ELSE {})

\* how many sent messages a receiver has not received yet
Lag(r) == Len(bcast) - (IF r = "ws" THEN ws_next ELSE peer_next)

\* faulty variant: a send that waits for a free slot of every receiver, and
\* whose error ends the caller
SendCompletes_bounded(receivers) ==
    receivers # {} /\ \A r \in receivers : Lag(r) < BufferLen

\* broadcast::Sender::send returns at once: Ok with a receiver alive, Err
\* without one (let _ = drops it), overwriting the oldest slot when full
SendCompletes(receivers) == TRUE

\* AppState::notify_update: let _ = self.updates_tx.send(update)
notify_update(update) ==
    /\ SendCompletes(Receivers)
    /\ bcast' = Append(bcast, update)

\* faulty variant: loops that notify every key of the new table, changed or not
UpdateKeys_every(old, new) == DOMAIN new \cup (DOMAIN old \ DOMAIN new)

\* update_profiles: the keys its two loops send a notification for
UpdateKeys(old, new) ==
    {k \in DOMAIN new : k \notin DOMAIN old \/ old[k].timestamp # new[k].timestamp}
    \cup (DOMAIN old \ DOMAIN new)

\* update_profiles: the notification for one of those keys
UpdateFor(old, new, k) ==
    IF k \notin DOMAIN new THEN ProfileUpdate("ProfileRemoved", k, None, "update_profiles")
    ELSE IF k \in DOMAIN old
         THEN ProfileUpdate("ProfileUpdated", k, Some(new[k]), "update_profiles")
         ELSE ProfileUpdate("ProfileCreated", k, Some(new[k]), "update_profiles")

\* a write to the snapshot is between its load and its last step
WriteInFlight == poll_pc = "notify" \/ api_pc # "idle"

\* history: a write starts
WindowStart(op) ==
    /\ win_base' = IF WriteInFlight THEN win_base ELSE snapshot
    /\ win_from' = IF WriteInFlight THEN win_from ELSE Len(bcast)
    /\ win_ops' = IF WriteInFlight THEN Append(win_ops, op) ELSE << op >>

(***************************************************************************)
(* ApiServer::start_collector: the profile polling task                    *)
(***************************************************************************)
\* interval.tick(), is_running(), then get_profiles() sends its command
PollTick ==
    /\ poll_pc = "idle"
    /\ polls < MaxPolls
    /\ Len(command_queue) < CommandCapacity
    /\ polls' = polls + 1
    /\ IF actor_running
       THEN /\ command_queue' =
                 Append(command_queue, [type |-> "GetProfiles", caller |-> "poller"])
            /\ call' = [call EXCEPT !["poller"] = [state |-> "pending"]]
            /\ poll_pc' = "waiting"
       ELSE /\ poll_pc' = "ended"
            /\ UNCHANGED <<command_queue, call>>
    /\ UNCHANGED <<ctorVars, pipeVars, actor_running, profiles, clock, applied, stopVars, issued,
                   stateVars, poll_old, poll_new, poll_todo, poll_at, apiVars, wsVars,
                   reader_view, winVars>>

\* get_profiles() returns; a non-empty table enters update_profiles, which
\* first loads old_profiles
PollReply ==
    /\ poll_pc = "waiting"
    /\ call["poller"].state \in {"answered", "closed"}
    /\ call' = [call EXCEPT !["poller"] = NoCall]
    /\ poll_at' = IF call["poller"].state = "answered" THEN call["poller"].at ELSE poll_at
    /\ IF call["poller"].state = "answered" /\ call["poller"].value # EmptyTable
       THEN /\ poll_old' = snapshot
            /\ poll_new' = call["poller"].value
            /\ poll_todo' = UpdateKeys(snapshot, call["poller"].value)
            /\ poll_pc' = "notify"
            /\ WindowStart([op |-> "update", new |-> call["poller"].value])
       ELSE /\ poll_pc' = "idle"
            /\ UNCHANGED <<poll_old, poll_new, poll_todo, winVars>>
    /\ UNCHANGED <<ctorVars, pipeVars, actor_running, profiles, clock, command_queue, applied,
                   stopVars, issued, stateVars, polls, apiVars, wsVars, reader_view>>

\* update_profiles: one notify_update of its loops (new_profiles first, then
\* the removed keys; a HashMap iterates in any order)
PollNotify ==
    /\ poll_pc = "notify"
    /\ \E k \in poll_todo :
          /\ k \in DOMAIN poll_new \/ poll_todo \cap DOMAIN poll_new = {}
          /\ notify_update(UpdateFor(poll_old, poll_new, k))
          /\ poll_todo' = poll_todo \ {k}
    /\ UNCHANGED <<ctorVars, pipeVars, actorVars, stopVars, issued, snapshot, published, poll_pc,
                   poll_old, poll_new, polls, poll_at, apiVars, wsVars, reader_view,
                   winVars>>

\* update_profiles: self.profiles.store(Arc::new(new_profiles))
PollStore ==
    /\ poll_pc = "notify"
    /\ poll_todo = {}
    /\ snapshot' = ArcSwapStore(snapshot, poll_new)
    /\ published' = published \cup {poll_new}
    /\ poll_pc' = "idle"
    /\ poll_old' = EmptyTable
    /\ poll_new' = EmptyTable
    /\ UNCHANGED <<ctorVars, pipeVars, actorVars, stopVars, issued, bcast, poll_todo, polls,
                   poll_at, apiVars, wsVars, reader_view, winVars>>

(***************************************************************************)
(* AppState::remove_profile, upsert_profile and clear_profiles, as the     *)
(* DELETE handlers and other holders of the state run them                 *)
(***************************************************************************)
\* the profile an upsert_profile caller supplies
UpsertProfile ==
    Unwrap(analyze(DefaultAnalyzerConfig, SynResult("10.0.0.2", 90, 0), 0))

\* remove_profile(key): load_full, and return None for an absent key
ApiRemove ==
    /\ api_pc = "idle"
    /\ api_ops < MaxApiOps
    /\ api_ops' = api_ops + 1
    /\ \E key \in Keys :
          IF key \in DOMAIN snapshot
          THEN /\ api_op' = [op |-> "remove", key |-> key]
               /\ api_cur' = snapshot
               /\ api_pc' = "store"
               /\ WindowStart([op |-> "remove", key |-> key])
          ELSE UNCHANGED <<api_op, api_cur, api_pc, winVars>>
    /\ UNCHANGED <<ctorVars, pipeVars, actorVars, stopVars, issued, stateVars, pollVars, api_todo,
                   wsVars, reader_view>>

\* upsert_profile(key, profile): load_full
ApiUpsert ==
    /\ api_pc = "idle"
    /\ api_ops < MaxApiOps
    /\ api_ops' = api_ops + 1
    /\ api_op' = [op |-> "upsert", key |-> ProfileKey(UpsertProfile),
                  profile |-> UpsertProfile]
    /\ api_cur' = snapshot
    /\ api_pc' = "store"
    /\ WindowStart([op |-> "upsert", key |-> ProfileKey(UpsertProfile),
                    profile |-> UpsertProfile])
    /\ UNCHANGED <<ctorVars, pipeVars, actorVars, stopVars, issued, stateVars, pollVars, api_todo,
                   wsVars, reader_view>>

\* the table remove_profile / upsert_profile builds from the one it loaded
ApiNewTable(op, cur) ==
    IF op.op = "remove" THEN TableRemove(cur, op.key) ELSE TablePut(cur, op.key, op.profile)

\* remove_profile / upsert_profile: self.profiles.store(Arc::new(new_profiles))
ApiStore ==
    /\ api_pc = "store"
    /\ snapshot' = ArcSwapStore(snapshot, ApiNewTable(api_op, api_cur))
    /\ published' = published \cup {ApiNewTable(api_op, api_cur)}
    /\ api_pc' = "notify"
    /\ UNCHANGED <<ctorVars, pipeVars, actorVars, stopVars, issued, bcast, pollVars, api_op, api_cur,
                   api_todo, api_ops, wsVars, reader_view, winVars>>

\* remove_profile / upsert_profile: notify_update after the store
ApiNotify ==
    /\ api_pc = "notify"
    /\ notify_update(
          IF api_op.op = "remove"
          THEN ProfileUpdate("ProfileRemoved", api_op.key, None, "remove_profile")
          ELSE ProfileUpdate(IF api_op.key \in DOMAIN api_cur
                             THEN "ProfileUpdated" ELSE "ProfileCreated",
                             api_op.key, Some(api_op.profile), "upsert_profile"))
    /\ api_pc' = "idle"
    /\ api_op' = NoOp
    /\ api_cur' = EmptyTable
    /\ UNCHANGED <<ctorVars, pipeVars, actorVars, stopVars, issued, snapshot, published, pollVars,
                   api_todo, api_ops, wsVars, reader_view, winVars>>

\* clear_profiles(): load_full
ApiClear ==
    /\ api_pc = "idle"
    /\ api_ops < MaxApiOps
    /\ api_ops' = api_ops + 1
    /\ api_op' = [op |-> "clear"]
    /\ api_cur' = snapshot
    /\ api_todo' = DOMAIN snapshot
    /\ api_pc' = "clear"
    /\ WindowStart([op |-> "clear"])
    /\ UNCHANGED <<ctorVars, pipeVars, actorVars, stopVars, issued, stateVars, pollVars, wsVars,
                   reader_view>>

\* clear_profiles(): one notify_update of its loop over current.keys()
ApiClearNotify ==
    /\ api_pc = "clear"
    /\ \E k \in api_todo :
          /\ notify_update(ProfileUpdate("ProfileRemoved", k, None, "clear_profiles"))
          /\ api_todo' = api_todo \ {k}
    /\ UNCHANGED <<ctorVars, pipeVars, actorVars, stopVars, issued, snapshot, published, pollVars,
                   api_pc, api_op, api_cur, api_ops, wsVars, reader_view, winVars>>

\* faulty variant: a clear that stores the empty table before its loop is done
ApiClearStore_early ==
    /\ api_pc = "clear"
    /\ snapshot' = ArcSwapStore(snapshot, EmptyTable)
    /\ published' = published \cup {EmptyTable}
    /\ api_pc' = "idle"
    /\ api_op' = NoOp
    /\ api_cur' = EmptyTable
    /\ UNCHANGED <<ctorVars, pipeVars, actorVars, stopVars, issued, bcast, pollVars, api_todo,
                   api_ops, wsVars, reader_view, winVars>>

\* clear_profiles(): self.profiles.store(Arc::new(HashMap::new()))
ApiClearStore ==
    /\ api_pc = "clear"
    /\ api_todo = {}
    /\ snapshot' = ArcSwapStore(snapshot, EmptyTable)
    /\ published' = published \cup {EmptyTable}
    /\ api_pc' = "idle"
    /\ api_op' = NoOp
    /\ api_cur' = EmptyTable
    /\ UNCHANGED <<ctorVars, pipeVars, actorVars, stopVars, issued, bcast, pollVars, api_todo,
                   api_ops, wsVars, reader_view, winVars>>

\* AppState::get_profiles in a GET handler: self.profiles.load_full(); the
\* handler keeps the Arc it got
ReaderLoad ==
    /\ reader_view = None
    /\ reader_view' = Some(snapshot)
    /\ UNCHANGED <<ctorVars, pipeVars, actorVars, stopVars, issued, stateVars, pollVars, apiVars,
                   wsVars, winVars>>

(***************************************************************************)
(* handle_websocket: one session on the broadcast channel                  *)
(***************************************************************************)
\* positions of bcast the channel no longer retains
OldestRetained == IF Len(bcast) > BufferLen THEN Len(bcast) - BufferLen ELSE 0

\* state.subscribe_updates(): the receiver starts at the channel's tail
WsConnect ==
    /\ ws_pc = "none"
    /\ ws_next' = Len(bcast)
    /\ ws_log' = << [type |-> "subscribed", at |-> Len(bcast)] >>
    /\ ws_pc' = "initial"
    /\ UNCHANGED <<ctorVars, pipeVars, actorVars, stopVars, issued, stateVars, pollVars, apiVars,
                   peerVars, reader_view, winVars>>

\* the initial_data message with state.get_profiles()
WsInitial ==
    /\ ws_pc = "initial"
    /\ ws_log' = Append(ws_log, [type |-> "initial_data", profiles |-> snapshot])
    /\ ws_pc' = "open"
    /\ UNCHANGED <<ctorVars, pipeVars, actorVars, stopVars, issued, stateVars, pollVars, apiVars,
                   ws_next, peerVars, reader_view, winVars>>

\* updates_rx.recv() returns: Ok(update) is sent on as profile_update,
\* Err(Lagged(skipped)) moves the receiver to the oldest retained message;
\* lag is a history field, how far behind the receiver was
WsRecv ==
    /\ ws_pc = "open"
    /\ ws_next < Len(bcast)
    /\ IF ws_next < OldestRetained
       THEN /\ ws_log' = Append(ws_log, [type |-> "lagged",
                                         skipped |-> OldestRetained - ws_next,
                                         from |-> ws_next,
                                         lag |-> Len(bcast) - ws_next])
            /\ ws_next' = OldestRetained
            /\ ws_pc' = "lagged"
       ELSE /\ ws_log' = Append(ws_log, [type |-> "profile_update",
                                         update |-> bcast[ws_next + 1],
                                         pos |-> ws_next + 1,
                                         lag |-> Len(bcast) - ws_next])
            /\ ws_next' = ws_next + 1
            /\ ws_pc' = "open"
    /\ UNCHANGED <<ctorVars, pipeVars, actorVars, stopVars, issued, stateVars, pollVars, apiVars,
                   peerVars, reader_view, winVars>>

\* the Lagged arm: the catch_up message with *state.get_profiles() and
\* skipped_updates; sent_upto is a history field
WsCatchUp ==
    /\ ws_pc = "lagged"
    /\ ws_log' = Append(ws_log, [type |-> "catch_up", profiles |-> snapshot,
                                 skipped_updates |-> ws_log[Len(ws_log)].skipped,
                                 sent_upto |-> Len(bcast)])
    /\ ws_pc' = "open"
    /\ UNCHANGED <<ctorVars, pipeVars, actorVars, stopVars, issued, stateVars, pollVars, apiVars,
                   ws_next, peerVars, reader_view, winVars>>

\* the client closes, the stream ends or a send to it fails: the handler
\* returns and drops updates_rx
WsClose ==
    /\ ws_pc \in {"initial", "open", "lagged"}
    /\ ws_pc' = "closed"
    /\ UNCHANGED <<ctorVars, pipeVars, actorVars, stopVars, issued, stateVars, pollVars, apiVars,
                   ws_next, ws_log, peerVars, reader_view, winVars>>

\* a second session: state.subscribe_updates()
PeerConnect ==
    /\ peer_pc = "none"
    /\ peer_next' = Len(bcast)
    /\ peer_log' = << [type |-> "subscribed", at |-> Len(bcast)] >>
    /\ peer_pc' = "open"
    /\ UNCHANGED <<ctorVars, pipeVars, actorVars, stopVars, issued, stateVars, pollVars, apiVars,
                   ws_pc, ws_next, ws_log, reader_view, winVars>>

\* the second session's updates_rx.recv() returns Ok(update) or
\* Err(Lagged(skipped)); what it then sends to its client is left out
PeerRecv ==
    /\ peer_pc = "open"
    /\ peer_next < Len(bcast)
    /\ IF peer_next < OldestRetained
       THEN /\ peer_log' = Append(peer_log, [type |-> "lagged",
                                             skipped |-> OldestRetained - peer_next,
                                             from |-> peer_next,
                                             lag |-> Len(bcast) - peer_next])
            /\ peer_next' = OldestRetained
       ELSE /\ peer_log' = Append(peer_log, [type |-> "profile_update",
                                             update |-> bcast[peer_next + 1],
                                             pos |-> peer_next + 1,
                                             lag |-> Len(bcast) - peer_next])
            /\ peer_next' = peer_next + 1
    /\ UNCHANGED <<ctorVars, pipeVars, actorVars, stopVars, issued, stateVars, pollVars, apiVars,
                   ws_pc, ws_next, ws_log, peer_pc, reader_view, winVars>>

\* the second session ends and drops its updates_rx
PeerClose ==
    /\ peer_pc = "open"
    /\ peer_pc' = "closed"
    /\ UNCHANGED <<ctorVars, pipeVars, actorVars, stopVars, issued, stateVars, pollVars, apiVars,
                   ws_pc, ws_next, ws_log, peer_next, peer_log, reader_view, winVars>>

(***************************************************************************)
(* The server: the actor with a batch of events already bridged, the       *)
(* polling task, the snapshot writers, one reader, one WebSocket session.  *)
(* The handle sits in an Arc, so stop(self) is never run here.             *)
(***************************************************************************)
ApiEvents(sig) == {SynResult(ip, 90, sig) : ip \in IPs}

ApiBatches ==
    UNION {{b \in [1..n -> UNION {ApiEvents(i) : i \in 1..n}] :
               \A i \in 1..n : SigOf(b[i]) = i} : n \in 1..ChannelBufferSize}

ApiInit ==
    /\ producer_alive = TRUE
    /\ sync_queue = << >>
    /\ bridge_pc = "recv"
    /\ bridge_held = None
    /\ async_queue \in ApiBatches
    /\ sent = Len(async_queue)
    /\ dequeued = [i \in 1..Len(async_queue) |-> i]
    /\ forwarded = [i \in 1..Len(async_queue) |-> i]
    /\ actor_running = TRUE
    /\ profiles = EmptyTable
    /\ clock = 1
    /\ command_queue = << >>
    /\ call = [c \in Callers |-> NoCall]
    /\ issued = 0
    /\ shutdown_queue = 0
    /\ stop_pc = "idle"
    /\ stop_result = "none"
    /\ applied = << >>
    /\ snapshot = EmptyTable
    /\ published = {EmptyTable}
    /\ bcast = << >>
    /\ poll_pc = "idle"
    /\ poll_old = EmptyTable
    /\ poll_new = EmptyTable
    /\ poll_todo = {}
    /\ polls = 0
    /\ poll_at = 0
    /\ api_pc = "idle"
    /\ api_op = NoOp
    /\ api_cur = EmptyTable
    /\ api_todo = {}
    /\ api_ops = 0
    /\ ws_pc = "none"
    /\ ws_next = 0
    /\ ws_log = << >>
    /\ peer_pc = "none"
    /\ peer_next = 0
    /\ peer_log = << >>
    /\ reader_view = None
    /\ win_base = EmptyTable
    /\ win_from = 0
    /\ win_ops = << >>
    /\ collector_config = RunningConfig
    /\ collector = "started"

\* the DELETE /api/profiles handler's collector.clear_profiles()
ApiClientClear ==
    /\ issued < MaxClears
    /\ ClientCallOf({[type |-> "ClearProfiles"]})

ApiNext ==
    \/ ActorEvent
    \/ ActorQuery
    \/ ActorClear
    \/ ApiClientClear
    \/ PollTick
    \/ PollReply
    \/ PollNotify
    \/ PollStore
    \/ ApiRemove
    \/ ApiUpsert
    \/ ApiStore
    \/ ApiNotify
    \/ ApiClear
    \/ ApiClearNotify
    \/ ApiClearStore
    \/ ReaderLoad

SpecApi == ApiInit /\ [][ApiNext]_vars

\* the server with a WebSocket session, its clients sending no clear
WsNext ==
    \/ ActorEvent
    \/ ActorQuery
    \/ PollTick
    \/ PollReply
    \/ PollNotify
    \/ PollStore
    \/ ApiRemove
    \/ ApiUpsert
    \/ ApiStore
    \/ ApiNotify
    \/ WsConnect
    \/ WsInitial
    \/ WsRecv
    \/ WsCatchUp

SpecWs == ApiInit /\ [][WsNext]_vars

\* the server with two WebSocket sessions that may lag and go away, the
\* polling task being the only writer
SubsNext ==
    \/ ActorEvent
    \/ ActorQuery
    \/ PollTick
    \/ PollReply
    \/ PollNotify
    \/ PollStore
    \/ WsConnect
    \/ WsInitial
    \/ WsRecv
    \/ WsCatchUp
    \/ WsClose
    \/ PeerConnect
    \/ PeerRecv
    \/ PeerClose

SpecSubs == ApiInit /\ [][SubsNext]_vars

(***************************************************************************)
(* The same pipeline over a smaller alphabet, with the fairness of the     *)
(* actor: tokio::select! polls its branches in random order, so a ready    *)
(* event branch is eventually taken whatever else is ready.                *)
(***************************************************************************)
LiveEvents(sig) == {SynResult("10.0.0.1", 90, sig), MtuResult("10.0.0.1", sig)}

LiveCommands ==
    {[type |-> "GetProfiles", caller |-> "client"],
     [type |-> "ClearProfiles", caller |-> "client"]}

LiveProducerSend == ProducerSendOf(LiveEvents(sent + 1))

LiveClientCall == ClientCallOf(LiveCommands)

LiveNext ==
    \/ LiveProducerSend
    \/ ProducerDrop
    \/ BridgeRecv
    \/ BridgeDisconnect
    \/ BridgeSend
    \/ BridgeSendFail
    \/ ActorEvent
    \/ ActorQuery
    \/ ActorClear
    \/ ActorShutdown
    \/ LiveClientCall
    \/ ClientReturn
    \/ StopSignal
    \/ StopAwaitActor
    \/ StopJoinBridge

LiveSpec == Init /\ [][LiveNext]_vars /\ WF_vars(ActorEvent)

\* the pipeline with every step of the program fair: the tokio runtime polls
\* the actor and stop(), the bridge has a thread of its own, select! picks
\* among ready branches at random; the foreign engine is under no obligation
StopSpec ==
    /\ Init /\ [][LiveNext]_vars
    /\ WF_vars(ActorEvent) /\ WF_vars(ActorShutdown)
    /\ WF_vars(BridgeRecv) /\ WF_vars(BridgeSend)
    /\ WF_vars(BridgeSendFail) /\ WF_vars(BridgeDisconnect)
    /\ WF_vars(StopAwaitActor) /\ WF_vars(StopJoinBridge)

(***************************************************************************)
(* The pipeline under every kind of event the engine reports for one       *)
(* client: SYN, SYN-ACK, HTTP request (two qualities), HTTP response, TLS  *)
(* and MTU, with clear requests in between.                                *)
(***************************************************************************)
ServerIP == "10.0.0.9"

DataEvents(sig) ==
    {SynResult("10.0.0.1", 90, sig),
     SynAckResult(ServerIP, "10.0.0.1", 90, sig),
     HttpRequestResult("10.0.0.1", 50, sig),
     HttpRequestResult("10.0.0.1", 30, sig),
     HttpResponseResult(ServerIP, "10.0.0.1", 30, sig),
     TlsClientResult("10.0.0.1", sig),
     MtuResult("10.0.0.1", sig)}

DataProducerSend == ProducerSendOf(DataEvents(sent + 1))

DataClientCall == ClientCallOf(LiveCommands)

DataNext ==
    \/ DataProducerSend
    \/ BridgeRecv
    \/ BridgeSend
    \/ ActorEvent
    \/ ActorQuery
    \/ ActorClear
    \/ DataClientCall
    \/ ClientReturn

SpecData == Init /\ [][DataNext]_vars

(***************************************************************************)
(* The pipeline under events of one host seen from several ports, with     *)
(* get_profile lookups by a caller and the polling task that announces the *)
(* table's keys.                                                           *)
(***************************************************************************)
\* the event with the port of its endpoint in every sub-record it carries
AtPort(result, port) ==
    [f \in DOMAIN result |->
        IF result[f] = None
        THEN None
        ELSE Some([g \in DOMAIN Unwrap(result[f]) \cup {"port"} |->
                      IF g = "port" THEN port ELSE Unwrap(result[f])[g]])]

Ports == {40001, 40002}

KeyEvents(sig) ==
    {AtPort(SynResult("10.0.0.1", 90, sig), port) : port \in Ports}
    \cup {AtPort(TlsClientResult("10.0.0.1", sig), port) : port \in Ports}

\* the keys a caller may try for host 10.0.0.1
KeyLookups ==
    {[type |-> "GetProfile", key |-> key, caller |-> "client"] :
        key \in {"10.0.0.1", "10.0.0.1:0", "10.0.0.1:40001"}}

KeyProducerSend == ProducerSendOf(KeyEvents(sent + 1))

KeyClientCall == ClientCallOf(KeyLookups)

KeyNext ==
    \/ KeyProducerSend
    \/ BridgeRecv
    \/ BridgeSend
    \/ ActorEvent
    \/ ActorQuery
    \/ KeyClientCall
    \/ ClientReturn
    \/ PollTick
    \/ PollReply
    \/ PollNotify
    \/ PollStore

SpecKeys == Init /\ [][KeyNext]_vars

(***************************************************************************)
(* The collector under the polling task and clear_profiles() calls on the  *)
(* handle. The polling task ticks every two seconds for as long as the     *)
(* collector runs; the runtime polls it and the actor, and select! picks   *)
(* among the ready branches at random, so each of their steps is fair. The *)
(* engine and the caller of clear_profiles() are under no obligation.      *)
(***************************************************************************)
\* interval.tick() and get_profiles() of the ticks beyond the counted ones
PollTickAgain ==
    /\ poll_pc = "idle"
    /\ polls = MaxPolls
    /\ Len(command_queue) < CommandCapacity
    /\ actor_running
    /\ command_queue' = Append(command_queue, [type |-> "GetProfiles", caller |-> "poller"])
    /\ call' = [call EXCEPT !["poller"] = [state |-> "pending"]]
    /\ poll_pc' = "waiting"
    /\ UNCHANGED <<ctorVars, pipeVars, actor_running, profiles, clock, applied, stopVars, issued,
                   stateVars, poll_old, poll_new, poll_todo, polls, poll_at, apiVars,
                   wsVars, reader_view, winVars>>

ClearClientCall == ClientCallOf({[type |-> "ClearProfiles", caller |-> "client"]})

ClearNext ==
    \/ LiveProducerSend
    \/ BridgeRecv
    \/ BridgeSend
    \/ ActorEvent
    \/ ActorQuery
    \/ ActorClear
    \/ ClearClientCall
    \/ PollTick
    \/ PollTickAgain
    \/ PollReply
    \/ PollNotify
    \/ PollStore

ClearSpec ==
    /\ Init /\ [][ClearNext]_vars
    /\ WF_vars(BridgeRecv) /\ WF_vars(BridgeSend)
    /\ WF_vars(ActorEvent) /\ WF_vars(ActorQuery) /\ WF_vars(ActorClear)
    /\ WF_vars(PollTick) /\ WF_vars(PollTickAgain)
    /\ WF_vars(PollReply) /\ WF_vars(PollNotify) /\ WF_vars(PollStore)

(***************************************************************************)
(* The pipeline under events that carry no sub-record, hence no IP, mixed  *)
(* with events that do, and the commands of a caller. No process_* or      *)
(* analyze_* function of the analyzer has a failing path, so an event      *)
(* without IP is the one way analyze() yields nothing to store here.       *)
(***************************************************************************)
DropEvents(sig) ==
    {EmptyResult, SynResult("10.0.0.1", 90, sig), TlsClientResult("10.0.0.1", sig)}

DropProducerSend == ProducerSendOf(DropEvents(sent + 1))

DropNext ==
    \/ DropProducerSend
    \/ BridgeRecv
    \/ BridgeSend
    \/ ActorEvent
    \/ ActorQuery
    \/ ActorClear
    \/ ClientCall
    \/ ClientReturn

SpecDrop == Init /\ [][DropNext]_vars

(***************************************************************************)
(* The pipeline of a collector built with min_quality 0.4, under events    *)
(* that carry a SYN and an HTTP request at once, each above or below the   *)
(* threshold.                                                              *)
(***************************************************************************)
\* NetworkCollectorBuilder::min_quality(0.4)
FilterConfig == [DefaultAnalyzerConfig EXCEPT !.min_quality = 40]

SynAndHttpResult(ip, qs, qh, sig) ==
    [EmptyResult EXCEPT
        !.syn = Some([source |-> ip, quality |-> qs, sig |-> sig]),
        !.http_request = Some([source |-> ip, quality |-> qh, sig |-> sig])]

FilterEvents(sig) ==
    {SynAndHttpResult("10.0.0.1", qs, qh, sig) : qs \in {30, 90}, qh \in {30, 50}}

FilterProducerSend == ProducerSendOf(FilterEvents(sent + 1))

FilterActorEvent == ActorEventWith(FilterConfig)

FilterNext ==
    \/ FilterProducerSend
    \/ BridgeRecv
    \/ BridgeSend
    \/ FilterActorEvent
    \/ ActorQuery
    \/ ActorClear
    \/ DataClientCall
    \/ ClientReturn

SpecFilter == Init /\ [][FilterNext]_vars

(***************************************************************************)
(* The actor with one bridged event that carries any combination of the    *)
(* seven sub-records, each naming endpoints of its own, and a caller that  *)
(* reads the table.                                                        *)
(***************************************************************************)
\* the sub-record of each kind: client 10.0.1.n, server 10.0.9.n
PrioSub ==
    [syn |-> [source |-> "10.0.1.1", quality |-> 90, sig |-> 1],
     syn_ack |-> [source |-> "10.0.9.2", destination |-> "10.0.1.2",
                  quality |-> 90, sig |-> 1],
     http_request |-> [source |-> "10.0.1.3", quality |-> 50, sig |-> 1],
     http_response |-> [source |-> "10.0.9.4", destination |-> "10.0.1.4",
                        quality |-> 30, sig |-> 1],
     tls_client |-> [source |-> "10.0.1.5", sig |-> 1],
     mtu |-> [source |-> "10.0.1.6", sig |-> 1],
     uptime |-> [source |-> "10.0.1.7", sig |-> 1]]

PrioEvents ==
    {[f \in DOMAIN EmptyResult |-> IF f \in present THEN Some(PrioSub[f]) ELSE None] :
        present \in SUBSET DOMAIN EmptyResult}

PrioInit ==
    /\ producer_alive = TRUE
    /\ sync_queue = << >>
    /\ bridge_pc = "recv"
    /\ bridge_held = None
    /\ async_queue \in {<< e >> : e \in PrioEvents}
    /\ sent = Len(async_queue)
    /\ dequeued = [i \in 1..Len(async_queue) |-> i]
    /\ forwarded = [i \in 1..Len(async_queue) |-> i]
    /\ actor_running = TRUE
    /\ profiles = EmptyTable
    /\ clock = 1
    /\ command_queue = << >>
    /\ call = [c \in Callers |-> NoCall]
    /\ issued = 0
    /\ shutdown_queue = 0
    /\ stop_pc = "idle"
    /\ stop_result = "none"
    /\ applied = << >>
    /\ snapshot = EmptyTable
    /\ published = {EmptyTable}
    /\ bcast = << >>
    /\ poll_pc = "idle"
    /\ poll_old = EmptyTable
    /\ poll_new = EmptyTable
    /\ poll_todo = {}
    /\ polls = 0
    /\ poll_at = 0
    /\ api_pc = "idle"
    /\ api_op = NoOp
    /\ api_cur = EmptyTable
    /\ api_todo = {}
    /\ api_ops = 0
    /\ ws_pc = "none"
    /\ ws_next = 0
    /\ ws_log = << >>
    /\ peer_pc = "none"
    /\ peer_next = 0
    /\ peer_log = << >>
    /\ reader_view = None
    /\ win_base = EmptyTable
    /\ win_from = 0
    /\ win_ops = << >>
    /\ collector_config = RunningConfig
    /\ collector = "started"

PrioClientCall == ClientCallOf({[type |-> "GetProfiles", caller |-> "client"]})

PrioNext ==
    \/ ActorEvent
    \/ ActorQuery
    \/ PrioClientCall
    \/ ClientReturn

SpecPrio == PrioInit /\ [][PrioNext]_vars

(***************************************************************************)
(* Properties of the pipeline                                              *)
(***************************************************************************)
\* the events the actor has processed, in order
AppliedEvents == SelectSeq(applied, LAMBDA a : a.kind = "event")

AppliedSigs == [i \in 1..Len(AppliedEvents) |-> SigOf(AppliedEvents[i].result)]

IsPrefix(s, t) == Len(s) <= Len(t) /\ \A i \in 1..Len(s) : s[i] = t[i]

RECURSIVE TableAfter(_)
\* the table after a log of fully applied events and clear commands
TableAfter(log) ==
    IF log = << >>
    THEN EmptyTable
    ELSE LET last == log[Len(log)]
             prev == TableAfter(SubSeq(log, 1, Len(log) - 1))
         IN IF last.kind = "clear"
            THEN EmptyTable
            ELSE process_fingerprint_result(analyzer_config, prev, last.result, last.now)

\* C1: the actor applies events in the order the producer sent them (sig is
\* the send index): of two applied events, the one sent first is applied first.
C1_FifoOrder ==
    \A i, j \in 1..Len(AppliedSigs) : i < j => AppliedSigs[i] < AppliedSigs[j]

C1_Witness ==
    \E i, j \in 1..Len(AppliedEvents) :
        /\ i < j
        /\ extract_primary_ip(AppliedEvents[i].result)
             = extract_primary_ip(AppliedEvents[j].result)
        /\ Cardinality(DOMAIN profiles) = 1

\* what a caller is entitled to for its command, given the table it is answered from
ExpectedReply(cmd, table) ==
    IF cmd.type = "GetProfiles" THEN table
    ELSE IF cmd.type = "GetProfileCount" THEN Cardinality(DOMAIN table)
    ELSE IF cmd.key \in DOMAIN table THEN << table[cmd.key] >> ELSE << >>

\* C2: every answer to get_profiles / get_profile / get_profile_count is the
\* answer computed from the table after exactly the events and clears the
\* actor had applied when it dequeued the command.
C2_ReplyIsTableAtDequeue ==
    \A c \in Callers :
        call[c].state = "answered" =>
            /\ call[c].at <= Len(applied)
            /\ call[c].value =
                 ExpectedReply(call[c].cmd, TableAfter(SubSeq(applied, 1, call[c].at)))

C2_Witness ==
    /\ call["client"].state = "answered"
    /\ call["client"].cmd.type = "GetProfiles"
    /\ call["client"].at >= 2
    /\ call["client"].at < Len(applied)
    /\ call["client"].value # EmptyTable
    /\ call["client"].value # profiles

\* C7 as stated: the forwarded sequence is a prefix of the dequeued one and
\* lacks at most its last event, and that only after the bridge has ended
\* with a channel error.
C7_LacksOnlyAfterError ==
    /\ IsPrefix(forwarded, dequeued)
    /\ Len(dequeued) <= Len(forwarded) + 1
    /\ Len(dequeued) = Len(forwarded) + 1 => bridge_pc = "err"

\* C7 amended: the forwarded sequence is a prefix of the dequeued one and
\* lacks at most its last event, and that only while the bridge still holds
\* that event for blocking_send or after it has ended with a channel error.
C7_LacksOnlyHeldOrAfterError ==
    /\ IsPrefix(forwarded, dequeued)
    /\ Len(dequeued) <= Len(forwarded) + 1
    /\ Len(dequeued) = Len(forwarded) + 1 =>
          \/ bridge_pc = "err"
          \/ /\ bridge_pc = "send"
             /\ bridge_held # None
             /\ SigOf(Unwrap(bridge_held)) = dequeued[Len(dequeued)]

C7_Witness ==
    /\ bridge_pc = "err"
    /\ Len(forwarded) >= 1
    /\ Len(dequeued) = Len(forwarded) + 1

\* C8: every event the bridge has forwarded is eventually processed by the
\* actor, unless shutdown is signaled.
C8_ForwardedEventuallyProcessed ==
    \A s \in 1..MaxEvents :
        (\E i \in 1..Len(forwarded) : forwarded[i] = s)
            ~> \/ \E i \in 1..Len(applied) :
                     applied[i].kind = "event" /\ SigOf(applied[i].result) = s
               \/ stop_pc # "idle"

C8_Witness ==
    /\ ~producer_alive
    /\ bridge_pc = "ok"
    /\ stop_pc = "idle"
    /\ Len(forwarded) >= 2
    /\ clock - 1 = Len(forwarded)


(***************************************************************************)
(* Properties of the server state                                          *)
(***************************************************************************)
\* C3: the snapshot shows the change of every notification at the instant
\* the notification is sent (key present with the notified profile for
\* Created/Updated, key absent for Removed).
C3_PublishedBeforeNotified ==
    \A i \in 1..Len(bcast) : bcast[i].reflected

\* the kind of change the i-th applied event or clear made to key k
MutationAt(i, k) ==
    LET before == TableAfter(SubSeq(applied, 1, i - 1))
        after == TableAfter(SubSeq(applied, 1, i))
    IN IF k \in DOMAIN after /\ k \notin DOMAIN before THEN "ProfileCreated"
       ELSE IF k \in DOMAIN before /\ k \notin DOMAIN after THEN "ProfileRemoved"
       ELSE IF k \in DOMAIN after /\ after[k] # before[k] THEN "ProfileUpdated"
       ELSE "none"

\* the changes the actor made to key k, in order
MutationKinds(k) ==
    SelectSeq([i \in 1..Len(applied) |-> MutationAt(i, k)], LAMBDA m : m # "none")

\* the notifications sent for key k, in order
NotifiedKinds(k) ==
    LET forKey == SelectSeq(bcast, LAMBDA u : u.key = k)
    IN [i \in 1..Len(forKey) |-> forKey[i].update_type]

\* C4: once the polling task has carried over everything the actor applied
\* (and nothing else wrote to the snapshot), the snapshot is the actor's
\* table and each key has had exactly the notifications of its mutations:
\* Created for its insert, Updated for each merge, Removed for each clear.
C4_EveryMutationNotifiedOnce ==
    ( /\ api_ops = 0
      /\ polls >= 1
      /\ poll_pc = "idle"
      /\ call["poller"].state = "none"
      /\ poll_at = Len(applied) )
    => /\ snapshot = profiles
       /\ \A k \in Keys : NotifiedKinds(k) = MutationKinds(k)

\* the profiles some writer has built in full: an entry of the actor's table
\* after a prefix of applied events, or the argument of upsert_profile
WholeProfiles ==
    {UpsertProfile} \cup
    UNION {{TableAfter(SubSeq(applied, 1, i))[k] :
               k \in DOMAIN TableAfter(SubSeq(applied, 1, i))} : i \in 0..Len(applied)}

\* C5: the table a reader got from get_profiles is, in its entirety, a table
\* handed to one publish, all its profiles are whole, and it stays as it is
\* while the reader holds it, whatever is published later.
C5_SnapshotAtomicAndIsolated ==
    /\ [](reader_view # None =>
            /\ Unwrap(reader_view) \in published
            /\ \A k \in DOMAIN Unwrap(reader_view) :
                  Unwrap(reader_view)[k] \in WholeProfiles)
    /\ [][reader_view # None => reader_view' = reader_view]_vars

C5_Witness ==
    /\ reader_view # None
    /\ Unwrap(reader_view) # EmptyTable
    /\ Unwrap(reader_view) # snapshot
    /\ WriteInFlight

\* what one write sends when it runs alone on a table: (type, key) pairs
OpNotes(table, op) ==
    IF op.op = "update"
    THEN {<<UpdateFor(table, op.new, k).update_type, k>> : k \in UpdateKeys(table, op.new)}
    ELSE IF op.op = "clear"
    THEN {<<"ProfileRemoved", k>> : k \in DOMAIN table}
    ELSE IF op.op = "remove"
    THEN IF op.key \in DOMAIN table THEN {<<"ProfileRemoved", op.key>>} ELSE {}
    ELSE {<<IF op.key \in DOMAIN table THEN "ProfileUpdated" ELSE "ProfileCreated", op.key>>}

\* the table one write leaves when it runs alone on a table
OpTable(table, op) ==
    IF op.op = "update" THEN op.new
    ELSE IF op.op = "clear" THEN EmptyTable
    ELSE IF op.op = "remove" THEN TableRemove(table, op.key)
    ELSE TablePut(table, op.key, op.profile)

RECURSIVE SerialRun(_, _, _)
\* the first n writes of ops, one after the other in the given order,
\* starting from win_base
SerialRun(ops, order, n) ==
    IF n = 0
    THEN [table |-> win_base, notes |-> {}]
    ELSE LET prev == SerialRun(ops, order, n - 1)
             op == ops[order[n]]
         IN [table |-> OpTable(prev.table, op),
             notes |-> prev.notes
                         \cup {<<n, x[1], x[2]>> : x \in OpNotes(prev.table, op)}]

Orders(n) == {f \in [1..n -> 1..n] : \A i, j \in 1..n : i # j => f[i] # f[j]}

UpdateTypes == {"ProfileCreated", "ProfileUpdated", "ProfileRemoved"}

\* C6: when no write is in flight, the snapshot and the notifications sent
\* since the last such moment are those of the writes started since then,
\* run one after the other in some order.
C6_WritesSerializable ==
    (~WriteInFlight /\ win_ops # << >>) =>
        \E order \in Orders(Len(win_ops)) :
            LET run == SerialRun(win_ops, order, Len(win_ops))
            IN /\ snapshot = run.table
               /\ \A t \in UpdateTypes, k \in Keys :
                     Cardinality({i \in (win_from + 1)..Len(bcast) :
                                     bcast[i].update_type = t /\ bcast[i].key = k})
                       = Cardinality({x \in run.notes : x[2] = t /\ x[3] = k})


\* the notifications the session has sent on as profile_update, in order
WsUpdates == SelectSeq(ws_log, LAMBDA m : m.type = "profile_update")

\* the session was never more than the requested capacity behind when it
\* came to receive
WsNeverBehind ==
    \A i \in 1..Len(ws_log) :
        ws_log[i].type \in {"profile_update", "lagged"} => ws_log[i].lag <= BroadcastCapacity

ConsistentWith(table, sent_upto, m) ==
    \/ Reflects(table, m.update.update_type, m.update.key, m.update.profile)
    \/ \E n \in (m.pos + 1)..sent_upto : bcast[n].key = m.update.key

\* C10: a lagged subscriber is told exactly how many notifications it lost
\* (those sent after the last one it received that the channel no longer
\* retained), its catch_up message carries that count and one full published
\* table, and that table is consistent with every notification delivered
\* to it before.
C10_CatchUpExactAndConsistent ==
    \A i \in 1..Len(ws_log) :
        /\ ws_log[i].type = "lagged" =>
              /\ ws_log[i].skipped = ws_log[i].lag - BufferLen
              /\ \A j \in (i + 1)..Len(ws_log) :
                    (ws_log[j].type = "profile_update"
                       /\ \A h \in (i + 1)..(j - 1) : ws_log[h].type = "catch_up")
                    => ws_log[j].pos = ws_log[i].from + ws_log[i].skipped + 1
        /\ ws_log[i].type = "catch_up" =>
              /\ ws_log[i].skipped_updates = ws_log[i - 1].skipped
              /\ ws_log[i].profiles \in published
              /\ \A j \in 1..(i - 1) :
                    ws_log[j].type = "profile_update" =>
                        ConsistentWith(ws_log[i].profiles, ws_log[i].sent_upto, ws_log[j])


\* what the recv() calls of a session returned, without its other messages
Received(log) == SelectSeq(log, LAMBDA m : m.type \in {"profile_update", "lagged"})

\* a session's receives follow from the sent notifications and its own
\* position alone: each starts where the one before ended, a notification is
\* the one sent at that position, and it is told it lagged exactly when it
\* was more than the retained messages behind
OwnPositionOnly(log) ==
    log # << >> =>
        LET recs == Received(log)
            start(i) == IF recs[i].type = "lagged" THEN recs[i].from ELSE recs[i].pos - 1
            end(i) == IF recs[i].type = "lagged"
                      THEN recs[i].from + recs[i].skipped ELSE recs[i].pos
        IN \A i \in 1..Len(recs) :
              /\ start(i) = IF i = 1 THEN log[1].at ELSE end(i - 1)
              /\ recs[i].type = "profile_update" =>
                    /\ recs[i].lag <= BufferLen
                    /\ recs[i].update = bcast[recs[i].pos]
              /\ recs[i].type = "lagged" =>
                    /\ recs[i].lag > BufferLen
                    /\ recs[i].skipped = recs[i].lag - BufferLen

\* C11: a writer that has a notification to send can always send it and
\* then go on to its store, whether no session is subscribed, a session has
\* gone away or every session is saturated; what each session receives
\* follows from its own position alone, and no step of a session changes
\* the snapshot or the notifications sent.
C11_PublishNeverBlocksNorInterferes ==
    /\ []( /\ (poll_pc = "notify" /\ poll_todo # {}) => ENABLED PollNotify
           /\ (poll_pc = "notify" /\ poll_todo = {}) => ENABLED PollStore
           /\ OwnPositionOnly(ws_log)
           /\ OwnPositionOnly(peer_log) )
    /\ [][wsVars' # wsVars => UNCHANGED <<stateVars, pollVars>>]_vars

C11_Witness ==
    /\ poll_pc = "notify"
    /\ poll_todo # {}
    /\ ws_pc = "closed"
    /\ peer_pc = "open"
    /\ Lag("peer") >= BufferLen
    /\ \E i \in 1..Len(ws_log) : ws_log[i].type = "profile_update"


(***************************************************************************)
(* Properties of stop()                                                    *)
(***************************************************************************)
\* C12: once stop() has been called it eventually returns, with exactly one
\* result, Ok or Err.
C12_StopTerminates ==
    /\ (stop_pc # "idle") ~> (stop_pc = "done")
    /\ [](stop_pc = "done" <=> stop_result # "none")
    /\ [][stop_result # "none" => stop_result' = stop_result]_vars

\* C13: stop() works in a fixed order: it sends the shutdown signal first, awaits
\* the actor task next, joins the bridge thread only once the actor task has
\* ended, and returns without ever waiting for the engine's thread.
C13_StopOrder ==
    /\ []( /\ stop_pc # "idle" => (shutdown_queue > 0 \/ ~actor_running)
           /\ stop_pc \in {"join_bridge", "done"} => ~actor_running
           /\ stop_pc = "done" => bridge_pc \in {"ok", "err"}
           /\ (stop_pc = "join_bridge" /\ bridge_pc \in {"ok", "err"})
                 => ENABLED StopJoinBridge )
    /\ [][stop_pc' # stop_pc =>
            \/ stop_pc = "idle" /\ stop_pc' = "await_actor"
            \/ stop_pc = "await_actor" /\ stop_pc' = "join_bridge"
            \/ stop_pc = "join_bridge" /\ stop_pc' = "done"]_vars

C13_Witness == stop_pc = "done" /\ producer_alive /\ ~actor_running

\* C14: stopping a running collector succeeds: whenever stop() returns (no task
\* has panicked) its result is Ok(()), also when the engine is still capturing
\* and hands events to the bridge during or after the shutdown.
C14_StopReturnsOk == stop_pc = "done" => stop_result = "Ok"

\* the actor has taken the signal that stop() sent
ShutdownConsumed == stop_pc # "idle" /\ shutdown_queue = 0

\* C15: once the actor has consumed the shutdown signal it applies no event and
\* answers no command any more: what was queued at that moment is never applied
\* or answered, and the profile table never changes again.
C15_NothingAfterShutdown ==
    [][ShutdownConsumed' =>
          /\ applied' = applied
          /\ profiles' = profiles
          /\ \A c \in Callers : call'[c].state = "answered" => call'[c] = call[c]]_vars

C15_Witness ==
    /\ ShutdownConsumed
    /\ stop_pc = "done"
    /\ profiles # EmptyTable
    /\ Len(forwarded) > Len(AppliedEvents)

(***************************************************************************)
(* Properties of the profile data                                          *)
(***************************************************************************)
\* the score the specification gives a profile, in tenths
ExpectedCompleteness(p) ==
    (IF p.tcp # None \/ p.tcp_client # None \/ p.tcp_server # None THEN 4 ELSE 0)
    + (IF p.http # None THEN 3 ELSE 0)
    + (IF p.tls # None THEN 3 ELSE 0)

\* C16: every profile of the table carries the completeness 0.4 (any TCP data:
\* tcp, tcp_client or tcp_server) + 0.3 (HTTP) + 0.3 (TLS) of the data it holds,
\* after every insert and every merge.
C16_CompletenessExact ==
    \A k \in DOMAIN profiles :
        profiles[k].metadata.completeness = ExpectedCompleteness(profiles[k])

\* the profile holds analysis data of at least one category
HasData(p) ==
    \/ p.tcp # None
    \/ p.tcp_client # None
    \/ p.tcp_server # None
    \/ p.http # None
    \/ p.tls # None

\* C17: no empty profile is ever in the table: every entry has TCP (tcp,
\* tcp_client or tcp_server), HTTP or TLS data, whatever events and commands
\* came before.
C17_NoEmptyProfileStored == \A k \in DOMAIN profiles : HasData(profiles[k])

\* an event without analysis data (an HTTP response) was applied to the empty
\* table and left it empty; a later MTU event met the profile a SYN had created
C17_Witness ==
    /\ Len(applied) = 3
    /\ applied[1].kind = "event" /\ applied[1].result.http_response # None
    /\ applied[2].kind = "event" /\ applied[2].result.syn # None
    /\ applied[3].kind = "event" /\ applied[3].result.mtu # None
    /\ DOMAIN profiles = {"10.0.0.1:0"}
    /\ profiles["10.0.0.1:0"].raw_data.mtu = None

\* position of the last clear command in the actor's log, 0 if there is none
LastClear ==
    LET cs == {i \in 1..Len(applied) : applied[i].kind = "clear"}
    IN IF cs = {} THEN 0 ELSE CHOOSE i \in cs : \A j \in cs : j <= i

\* the events that were inserted or merged under key k since the table was
\* last empty: those the analyzer turned into a profile of that key
EventsAppliedTo(k) ==
    {i \in (LastClear + 1)..Len(applied) :
        /\ applied[i].kind = "event"
        /\ Bind(analyze(analyzer_config, applied[i].result, applied[i].now),
                LAMBDA a : a # None /\ ProfileKey(Unwrap(a)) = k)}

\* C18: a profile that N applied events went into (the first inserted, the
\* others merged) has packet_count N: one count per applied event.
C18_PacketCountIsEventCount ==
    \A k \in DOMAIN profiles :
        profiles[k].metadata.packet_count = Cardinality(EventsAppliedTo(k))

\* the scalar fields of an HTTP analysis (label, confidence, signature)
HttpScalars(h) == <<h.browser, h.quality, h.signature>>

\* the step applies an event whose HTTP fragment f beats the confidence c
AppliesBetterHttp(c, f) ==
    /\ Len(applied') = Len(applied) + 1
    /\ LET e == applied'[Len(applied')]
       IN /\ e.kind = "event"
          /\ e.result.http_request # None
          /\ Unwrap(e.result.http_request).quality > c
          /\ f = Unwrap(analyze_http_request(analyzer_config, Unwrap(e.result.http_request)))

\* C19: the scalar HTTP fields of a stored profile change only when a fragment
\* of strictly greater confidence is merged, and then become that fragment's;
\* the stored HTTP confidence of a profile never decreases.
C19_HttpScalarsOnlyOnBetterConfidence ==
    [][\A k \in DOMAIN profiles \cap DOMAIN profiles' :
          profiles[k].http # None =>
             /\ profiles'[k].http # None
             /\ Unwrap(profiles'[k].http).quality >= Unwrap(profiles[k].http).quality
             /\ HttpScalars(Unwrap(profiles'[k].http)) # HttpScalars(Unwrap(profiles[k].http))
                   => \E f \in {Unwrap(profiles'[k].http)} :
                         AppliesBetterHttp(Unwrap(profiles[k].http).quality, f)]_vars

\* C20: an HTTP response event for an IP whose profile holds HTTP data makes
\* that event's response record the stored http.response and leaves the stored
\* http.request as it was; an HTTP request event replaces http.request and
\* leaves the stored http.response as it was.
C20_HttpSubRecordsReplacedSeparately ==
    [][Len(applied') = Len(applied) + 1 /\ applied'[Len(applied')].kind = "event" =>
          LET r == applied'[Len(applied')].result
              ip == extract_primary_ip(r)
              k == IF ip = None THEN "" ELSE ProfileKey([ip |-> Unwrap(ip), port |-> 0])
          IN (k \in DOMAIN profiles /\ profiles[k].http # None) =>
                /\ k \in DOMAIN profiles'
                /\ profiles'[k].http # None
                /\ r.http_response # None =>
                      /\ Unwrap(profiles'[k].http).response
                           = Unwrap(analyze_http_response(analyzer_config,
                                                          Unwrap(r.http_response))).response
                      /\ Unwrap(profiles'[k].http).request = Unwrap(profiles[k].http).request
                /\ r.http_request # None =>
                      /\ Unwrap(profiles'[k].http).request
                           = Unwrap(analyze_http_request(analyzer_config,
                                                         Unwrap(r.http_request))).request
                      /\ Unwrap(profiles'[k].http).response = Unwrap(profiles[k].http).response]_vars

\* the greatest element of a non-empty set of numbers
Latest(S) == CHOOSE i \in S : \A j \in S : j <= i

\* positions, since the table was last empty, of the applied events for key k
\* that carry a sub-record of the given field whose analysis passed the threshold
AcceptedTcp(k, field) ==
    {i \in (LastClear + 1)..Len(applied) :
        /\ applied[i].kind = "event"
        /\ applied[i].result[field] # None
        /\ extract_primary_ip(applied[i].result) # None
        /\ ProfileKey([ip |-> Unwrap(extract_primary_ip(applied[i].result)), port |-> 0]) = k
        /\ analyze_tcp(analyzer_config, Unwrap(applied[i].result[field])) # None}

\* the analysis a stored direction must hold: that of its most recent accepted event
LatestTcp(k, field) ==
    IF AcceptedTcp(k, field) = {}
    THEN None
    ELSE analyze_tcp(analyzer_config,
                     Unwrap(applied[Latest(AcceptedTcp(k, field))].result[field]))

\* C21: TCP is last-write-wins per direction: a stored profile's client-origin
\* analysis is that of the most recent accepted SYN for its IP, its
\* server-origin analysis that of the most recent accepted SYN-ACK, and neither
\* direction overwrites the other.
C21_TcpLastWriteWinsPerDirection ==
    \A k \in DOMAIN profiles :
        /\ profiles[k].tcp_client = LatestTcp(k, "syn")
        /\ profiles[k].tcp_server = LatestTcp(k, "syn_ack")

\* the Merge Policy applied to a stored profile: each fragment of the event goes
\* through the update method of TrafficProfile for its category (update_tcp_client
\* and update_tcp, update_tcp_server, update_http, update_tls)
PolicyMerge(config, p, result, now) ==
    LET p1 == AnalyzeSyn(config, result, p, now)
        p2 == AnalyzeSynAck(config, result, p1, now)
        p3 == AnalyzeHttpRequest(config, result, p2, now)
        a == IF result.http_response # None /\ config.enable_http
             THEN analyze_http_response(config, Unwrap(result.http_response))
             ELSE None
        p4 == IF a # None THEN update_http(p3, Unwrap(a), now) ELSE p3
    IN AnalyzeTls(config, result, p4, now)

\* the per-category state of a profile
Categories(p) == <<p.tcp, p.tcp_client, p.tcp_server, p.http, p.tls>>

RECURSIVE PolicyFold(_, _, _)
\* merge(...merge(merge(empty, e1), e2)..., en) over the events for ip among
\* log[from..Len(log)], in the order of application
PolicyFold(ip, log, upto) ==
    IF upto <= LastClear
    THEN TrafficProfile_new(ip, 0, 0)
    ELSE LET prev == PolicyFold(ip, log, upto - 1)
             e == log[upto]
         IN IF e.kind = "event" /\ extract_primary_ip(e.result) = Some(ip)
            THEN PolicyMerge(analyzer_config, prev, e.result, e.now)
            ELSE prev

\* C22: the per-category state (TCP, HTTP, TLS) of every stored profile is the
\* left fold of the Merge Policy over the events applied for its IP, in the
\* order of application.
C22_EqualsFoldOfMergePolicy ==
    \A k \in DOMAIN profiles :
        Categories(profiles[k])
          = Categories(PolicyFold(profiles[k].ip, applied, Len(applied)))

\* the key under which host ip is stored: its IP, a colon and the port 0
HostKey(ip) == ip \o ":0"

\* every table key, notified key and successful lookup key is key_of(ip) of the
\* profile it names, and a host has one entry whatever ports its events came from
KeyedBy(key_of(_)) ==
    /\ \A k \in DOMAIN profiles : k = key_of(profiles[k].ip)
    /\ \A i \in 1..Len(bcast) :
          bcast[i].profile # None => bcast[i].key = key_of(Unwrap(bcast[i].profile).ip)
    /\ (call["client"].state = "answered" /\ call["client"].value # None)
          => call["client"].cmd.key = key_of(Unwrap(call["client"].value).ip)
    /\ \A i \in 1..Len(applied) :
          (applied[i].kind = "event" /\ extract_primary_ip(applied[i].result) # None)
            => /\ key_of(Unwrap(extract_primary_ip(applied[i].result))) \in DOMAIN profiles
               /\ Cardinality({k \in DOMAIN profiles :
                      profiles[k].ip = Unwrap(extract_primary_ip(applied[i].result))}) = 1

ClearProcessed == applied # << >> /\ applied[Len(applied)].kind = "clear"

\* the keys the table held when the last clear-all command was processed
ClearedKeys == DOMAIN TableAfter(SubSeq(applied, 1, LastClear - 1))

\* a Removed notification for key k was sent after the last clear-all command:
\* it follows every notification that carries the profile
RemovedNotified(k) ==
    \E i \in 1..Len(bcast) :
        /\ bcast[i].key = k
        /\ bcast[i].update_type = "ProfileRemoved"
        /\ \A j \in 1..Len(bcast) : (bcast[j].key = k /\ bcast[j].profile # None) => j < i

\* C24: a clear-all command processed by the actor empties the table, and then,
\* unless a further event is applied, the published snapshot eventually becomes
\* empty and a Removed notification is sent for each key the table held.
C24_ClearReachesSubscribers ==
    /\ [](ClearProcessed => profiles = EmptyTable)
    /\ ClearProcessed ~>
          \/ ~ClearProcessed
          \/ /\ snapshot = EmptyTable
             /\ \A k \in ClearedKeys : RemovedNotified(k)

(***************************************************************************)
(* Properties of the bridge's two ways to end                              *)
(***************************************************************************)
IsSuffix(s, t) ==
    Len(s) <= Len(t) /\ \A i \in 1..Len(s) : s[i] = t[Len(t) - Len(s) + i]

\* C25: when the engine drops its sender the bridge forwards every event that
\* was sent, then returns Ok, not an error, as long as the actor is there to
\* receive; its async sender is dropped with it, so the receiver drains what
\* is queued and nothing is added any more.
C25_ProducerGoneCleanStop ==
    /\ []( bridge_pc = "ok" =>
              /\ ~producer_alive
              /\ sync_queue = << >> /\ bridge_held = None
              /\ Len(dequeued) = sent
              /\ forwarded = dequeued )
    /\ [](bridge_pc = "err" => ~actor_running)
    /\ [][bridge_pc = "ok" =>
            /\ bridge_pc' = "ok"
            /\ forwarded' = forwarded
            /\ IsSuffix(async_queue', async_queue)]_vars
    /\ (~producer_alive /\ actor_running) ~> (bridge_pc = "ok" \/ ~actor_running)

C25_Witness ==
    /\ bridge_pc = "ok"
    /\ Len(forwarded) = MaxEvents
    /\ actor_running
    /\ Len(async_queue) = ChannelBufferSize

\* C26: when the actor is gone the bridge's send fails and the bridge ends at
\* once with a Channel error, which its join hands to stop(): it does not try
\* again, takes nothing more from the input queue and does not run again.
C26_ConsumerGoneChannelError ==
    /\ []( /\ (bridge_pc = "send" /\ ~actor_running) => ENABLED BridgeSendFail
           /\ (stop_pc = "done" /\ bridge_pc = "err") => stop_result = "Err(Channel)"
           /\ stop_result = "Err(Channel)" => bridge_pc = "err" )
    /\ [][ /\ (bridge_pc = "send" /\ ~actor_running /\ bridge_pc' # bridge_pc)
                => (bridge_pc' = "err" /\ dequeued' = dequeued /\ forwarded' = forwarded)
           /\ bridge_pc = "err"
                => /\ bridge_pc' = "err"
                   /\ dequeued' = dequeued
                   /\ forwarded' = forwarded
                   /\ sync_queue' = sync_queue ]_vars

C26_Witness ==
    /\ bridge_pc = "err"
    /\ stop_result = "Err(Channel)"
    /\ sync_queue # << >>
    /\ Len(dequeued) = Len(forwarded) + 1

(***************************************************************************)
(* Properties of the actor's handling of single events                     *)
(***************************************************************************)
\* the actor's log without the events that carry no IP
WithIp(log) ==
    SelectSeq(log, LAMBDA a : a.kind = "clear" \/ extract_primary_ip(a.result) # None)

\* C27: an event without an extractable IP is dropped on the spot: the table
\* stays as it was and the actor's loop goes on, so that later events and
\* commands are processed as if the event had never come.
C27_EventWithoutIpDropped ==
    /\ []( /\ actor_running
           /\ async_queue # << >> => ENABLED ActorEvent
           /\ command_queue # << >> => (ENABLED ActorQuery \/ ENABLED ActorClear)
           /\ profiles = TableAfter(WithIp(applied)) )
    /\ [][(/\ Len(applied') = Len(applied) + 1
            /\ applied'[Len(applied')].kind = "event"
            /\ extract_primary_ip(applied'[Len(applied')].result) = None)
             => profiles' = profiles]_vars

\* an event without IP was applied to a table with a profile, and an event
\* applied after it changed that profile
C27_Witness ==
    /\ Len(applied) = 3
    /\ applied[1].kind = "event" /\ applied[1].result.syn # None
    /\ applied[2].kind = "event" /\ applied[2].result = EmptyResult
    /\ applied[3].kind = "event" /\ applied[3].result.tls_client # None
    /\ "10.0.0.1:0" \in DOMAIN profiles
    /\ profiles["10.0.0.1:0"].tls # None
    /\ call["client"].state = "answered"

\* what the table holds for key k in a category, None without an entry
Stored(table, k, field) == IF k \in DOMAIN table THEN table[k][field] ELSE None

\* a step applied an event that carries the sub-record f with a quality
\* below (pass = FALSE) or not below (pass = TRUE) the threshold min
AppliesFragment(f, min, pass) ==
    /\ Len(applied') = Len(applied) + 1
    /\ applied'[Len(applied')].kind = "event"
    /\ applied'[Len(applied')].result[f] # None
    /\ (Unwrap(applied'[Len(applied')].result[f]).quality >= min) = pass

\* the event the step applied
AppliedNow == applied'[Len(applied')].result

\* C28: the quality threshold filters per category: a fragment below the
\* minimum leaves what is stored for its category as it was, and a fragment of
\* the same event that passes is stored for its own category.
C28_ThresholdPerCategory ==
    [][LET k == "10.0.0.1:0"
       IN /\ AppliesFragment("syn", FilterConfig.min_quality, FALSE) =>
                /\ Stored(profiles', k, "tcp") = Stored(profiles, k, "tcp")
                /\ Stored(profiles', k, "tcp_client") = Stored(profiles, k, "tcp_client")
          /\ AppliesFragment("syn", FilterConfig.min_quality, TRUE) =>
                Stored(profiles', k, "tcp")
                  = Some([quality |-> Unwrap(AppliedNow.syn).quality,
                          signature |-> Unwrap(AppliedNow.syn).sig])
          /\ AppliesFragment("http_request", FilterConfig.min_quality, FALSE) =>
                Stored(profiles', k, "http") = Stored(profiles, k, "http")
          /\ AppliesFragment("http_request", FilterConfig.min_quality, TRUE) =>
                /\ Stored(profiles', k, "http") # None
                /\ Unwrap(Stored(profiles', k, "http")).signature
                     = Unwrap(AppliedNow.http_request).sig]_vars

\* a SYN below the threshold came with an HTTP request above it: the request
\* was stored and the TCP analysis of the first event was kept
C28_Witness ==
    /\ Len(applied) = 2
    /\ applied[1].kind = "event" /\ applied[2].kind = "event"
    /\ Unwrap(applied[1].result.syn).quality = 90
    /\ Unwrap(applied[2].result.syn).quality = 30
    /\ Unwrap(applied[2].result.http_request).quality = 50
    /\ "10.0.0.1:0" \in DOMAIN profiles
    /\ Unwrap(profiles["10.0.0.1:0"].tcp).signature = 1
    /\ Unwrap(profiles["10.0.0.1:0"].http).signature = 2

\* the priority list of the specification: the sub-record and its endpoint
Priority ==
    << <<"syn", "source">>, <<"syn_ack", "destination">>,
       <<"http_request", "source">>, <<"http_response", "destination">>,
       <<"tls_client", "source">>, <<"mtu", "source">>, <<"uptime", "source">> >>

\* first match of the priority list, None when no sub-record is present
ExpectedIp(result) ==
    LET hits == {i \in 1..Len(Priority) : result[Priority[i][1]] # None}
    IN IF hits = {}
       THEN None
       ELSE LET first == CHOOSE i \in hits : \A j \in hits : i <= j
            IN Some(Unwrap(result[Priority[first][1]])[Priority[first][2]])

\* the events the actor holds or has applied
SeenEvents ==
    {async_queue[i] : i \in 1..Len(async_queue)}
    \cup {applied[i].result : i \in {j \in 1..Len(applied) : applied[j].kind = "event"}}

\* C29: the IP of an event is the first match of SYN source, SYN-ACK
\* destination, HTTP request source, HTTP response destination, TLS client
\* source, MTU source, uptime source, for every combination of sub-records; an
\* event without sub-record has no IP. The profile an event creates is that IP's.
C29_PrimaryIpByPriority ==
    /\ \A e \in SeenEvents : extract_primary_ip(e) = ExpectedIp(e)
    /\ \A k \in DOMAIN profiles :
          \E i \in 1..Len(applied) :
              /\ applied[i].kind = "event"
              /\ ExpectedIp(applied[i].result) = Some(profiles[k].ip)
    /\ \A i \in 1..Len(applied) :
          (applied[i].kind = "event" /\ ExpectedIp(applied[i].result) = None)
             => profiles = EmptyTable

\* an event with a SYN-ACK, an HTTP request and a TLS hello but no SYN was
\* applied and made the profile of the SYN-ACK's destination
C29_Witness ==
    /\ Len(applied) = 1
    /\ applied[1].result.syn = None
    /\ applied[1].result.syn_ack # None
    /\ applied[1].result.http_request # None
    /\ applied[1].result.tls_client # None
    /\ DOMAIN profiles = {"10.0.1.2:0"}

(***************************************************************************)
(* Construction: NetworkCollector::new on any configuration, then start.   *)
(* Before start there is no channel, no bridge thread and no actor task.   *)
(***************************************************************************)
Interfaces == {"", "eth0"}

BufferSizes == {0, 100}

ChannelBufferSizes == {0, ChannelBufferSize}

MinQualities == {F64(0 - 1), F64(0), F64(40), F64(100), F64(101), NaN}

Configs ==
    [interface : Interfaces, buffer_size : BufferSizes,
     channel_buffer_size : ChannelBufferSizes, min_quality : MinQualities]

NewInit ==
    /\ collector_config \in Configs
    /\ collector = "none"
    /\ producer_alive = FALSE
    /\ sent = 0
    /\ sync_queue = << >>
    /\ bridge_pc = "none"
    /\ bridge_held = None
    /\ async_queue = << >>
    /\ actor_running = FALSE
    /\ profiles = EmptyTable
    /\ clock = 1
    /\ command_queue = << >>
    /\ call = [c \in Callers |-> NoCall]
    /\ issued = 0
    /\ shutdown_queue = 0
    /\ stop_pc = "idle"
    /\ stop_result = "none"
    /\ dequeued = << >>
    /\ forwarded = << >>
    /\ applied = << >>
    /\ snapshot = EmptyTable
    /\ published = {EmptyTable}
    /\ bcast = << >>
    /\ poll_pc = "idle"
    /\ poll_old = EmptyTable
    /\ poll_new = EmptyTable
    /\ poll_todo = {}
    /\ polls = 0
    /\ poll_at = 0
    /\ api_pc = "idle"
    /\ api_op = NoOp
    /\ api_cur = EmptyTable
    /\ api_todo = {}
    /\ api_ops = 0
    /\ ws_pc = "none"
    /\ ws_next = 0
    /\ ws_log = << >>
    /\ peer_pc = "none"
    /\ peer_next = 0
    /\ peer_log = << >>
    /\ reader_view = None
    /\ win_base = EmptyTable
    /\ win_from = 0
    /\ win_ops = << >>

\* NetworkCollector::new: validate, then build the analyzer and an empty table
New ==
    /\ collector = "none"
    /\ collector' = IF validate(collector_config) = "Ok" THEN "built" ELSE "Err(Configuration)"
    /\ UNCHANGED <<collector_config, pipeVars, actorVars, stopVars, issued, appVars>>

\* NetworkCollector::start: the channels, the engine thread, the bridge
\* thread and the actor task
Start ==
    /\ collector = "built"
    /\ collector' = "started"
    /\ producer_alive' = TRUE
    /\ bridge_pc' = "recv"
    /\ actor_running' = TRUE
    /\ UNCHANGED <<collector_config, sent, sync_queue, bridge_held, async_queue, dequeued, forwarded,
                   profiles, clock, command_queue, call, applied, stopVars, issued, appVars>>

\* the analyzer the actor runs with: quality < NaN is false, as quality < 0.0 is
AnalyzerOf(c) ==
    [DefaultAnalyzerConfig EXCEPT
        !.min_quality = IF c.min_quality.nan THEN 0 ELSE c.min_quality.v]

NewProducerSend == ProducerSendOf(LiveEvents(sent + 1))

NewActorEvent == ActorEventWith(AnalyzerOf(collector_config))

NewNext ==
    \/ New
    \/ Start
    \/ NewProducerSend
    \/ BridgeRecv
    \/ BridgeSend
    \/ NewActorEvent

SpecNew == NewInit /\ [][NewNext]_vars

\* the configurations the specification calls invalid
InvalidConfig(c) ==
    \/ c.interface = ""
    \/ c.buffer_size = 0
    \/ c.channel_buffer_size = 0
    \/ c.min_quality.nan
    \/ c.min_quality.v < 0
    \/ c.min_quality.v > 100

NothingCreated ==
    /\ ~producer_alive
    /\ bridge_pc = "none"
    /\ ~actor_running
    /\ sent = 0
    /\ sync_queue = << >>
    /\ async_queue = << >>
    /\ command_queue = << >>

\* C30: NetworkCollector::new rejects exactly the invalid configurations
\* (empty interface, zero buffer size, zero channel buffer size, minimum
\* confidence not within 0.0..1.0) with a Configuration error, and until a
\* collector is started no channel, thread or task exists; a rejected
\* configuration never gets any.
C30_InvalidConfigRejected ==
    /\ collector # "none" => (collector = "Err(Configuration)" <=> InvalidConfig(collector_config))
    /\ collector \in {"none", "built", "Err(Configuration)"} => NothingCreated

(***************************************************************************)
(* The actor under inputs that never cease: beyond the counted events the  *)
(* engine keeps reporting packets that carry no sub-record, the caller     *)
(* keeps asking for the table. Packets without                             *)
(* sub-record leave no trace in the histories, so the cycle is finite.     *)
(* tokio::select! without `biased;` starts at a random branch on every     *)
(* poll, so each ready branch of the actor is fair on its own; the bridge  *)
(* has a thread, stop() is polled by the runtime. The engine and the       *)
(* callers are under no obligation.                                        *)
(***************************************************************************)
Noise == EmptyResult

\* sync_sender.send(result) of a packet without sub-record
NoiseSend ==
    /\ producer_alive
    /\ sent = MaxEvents
    /\ bridge_pc \in {"recv", "send"}
    /\ sync_queue = << >>
    /\ sync_queue' = Append(sync_queue, Noise)
    /\ UNCHANGED <<ctorVars, producer_alive, sent, bridge_pc, bridge_held, async_queue, dequeued,
                   forwarded, actorVars, stopVars, issued, appVars>>

\* Ok(result) = self.sync_receiver.recv(), a counted event
MuxBridgeRecv ==
    /\ sync_queue # << >>
    /\ Head(sync_queue) # Noise
    /\ BridgeRecv

\* Ok(result) = self.sync_receiver.recv(), a packet without sub-record
BridgeRecvNoise ==
    /\ bridge_pc = "recv"
    /\ sync_queue # << >>
    /\ Head(sync_queue) = Noise
    /\ bridge_held' = Some(SyncRecvTake(sync_queue))
    /\ sync_queue' = Tail(sync_queue)
    /\ bridge_pc' = "send"
    /\ UNCHANGED <<ctorVars, producer_alive, sent, async_queue, dequeued, forwarded, actorVars,
                   stopVars, issued, appVars>>

\* Ok(_) = self.async_sender.blocking_send(result), a counted event
MuxBridgeSend ==
    /\ bridge_held # Some(Noise)
    /\ BridgeSend

\* Ok(_) = self.async_sender.blocking_send(result), a packet without sub-record
BridgeSendNoise ==
    /\ bridge_pc = "send"
    /\ bridge_held = Some(Noise)
    /\ actor_running
    /\ Len(async_queue) < ChannelBufferSize
    /\ async_queue' = AsyncEnqueue(async_queue, Noise)
    /\ bridge_held' = None
    /\ bridge_pc' = "recv"
    /\ UNCHANGED <<ctorVars, producer_alive, sent, sync_queue, dequeued, forwarded, actorVars,
                   stopVars, issued, appVars>>

\* the event arm on a counted event
MuxActorEvent ==
    /\ async_queue # << >>
    /\ Head(async_queue) # Noise
    /\ ActorEvent

\* the event arm on a packet without sub-record: analyze gives Ok(None)
ActorNoise ==
    /\ actor_running
    /\ async_queue # << >>
    /\ AsyncRecvTake(async_queue) = Noise
    /\ profiles' = process_fingerprint_result(analyzer_config, profiles, Noise, clock)
    /\ async_queue' = Tail(async_queue)
    /\ UNCHANGED <<ctorVars, producer_alive, sent, sync_queue, bridge_pc, bridge_held, dequeued,
                   forwarded, actor_running, clock, command_queue, call, applied, stopVars,
                   issued, appVars>>

MuxProducerSend == ProducerSendOf({SynResult("10.0.0.1", 90, sent + 1)})

\* get_profiles() of a caller that goes on asking beyond the counted commands
ClientCallAgain ==
    /\ stop_pc = "idle"
    /\ call["client"].state = "none"
    /\ issued = MaxCommands
    /\ actor_running
    /\ Len(command_queue) < CommandCapacity
    /\ command_queue' = Append(command_queue, [type |-> "GetProfiles", caller |-> "client"])
    /\ call' = [call EXCEPT !["client"] = [state |-> "pending"]]
    /\ UNCHANGED <<ctorVars, pipeVars, actor_running, profiles, clock, applied, stopVars, issued,
                   appVars>>

MuxNext ==
    \/ MuxProducerSend
    \/ NoiseSend
    \/ MuxBridgeRecv
    \/ BridgeRecvNoise
    \/ MuxBridgeSend
    \/ BridgeSendNoise
    \/ MuxActorEvent
    \/ ActorNoise
    \/ ActorQuery
    \/ ActorClear
    \/ LiveClientCall
    \/ ClientCallAgain
    \/ ClientReturn
    \/ StopSignal
    \/ ActorShutdown
    \/ BridgeSendFail
    \/ StopAwaitActor
    \/ StopJoinBridge

MuxSpec ==
    /\ Init /\ [][MuxNext]_vars
    /\ WF_vars(MuxBridgeRecv) /\ WF_vars(BridgeRecvNoise)
    /\ WF_vars(MuxBridgeSend) /\ WF_vars(BridgeSendNoise) /\ WF_vars(BridgeSendFail)
    /\ WF_vars(MuxActorEvent) /\ WF_vars(ActorNoise)
    /\ WF_vars(ActorQuery) /\ WF_vars(ActorClear) /\ WF_vars(ActorShutdown)
    /\ WF_vars(StopAwaitActor) /\ WF_vars(StopJoinBridge)

\* a clear-all request waits in the command channel
ClearQueued == \E i \in DOMAIN command_queue : command_queue[i].type = "ClearProfiles"

\* stop() has sent the shutdown signal
ShutdownSignaled == stop_pc # "idle"

\* C31: while the actor runs and no shutdown has been signaled, every query on
\* the command channel is eventually answered and every clear-all eventually
\* applied although events keep arriving, and whenever the bridge has forwarded
\* events the actor has not applied, the actor eventually has applied every
\* event forwarded so far, although commands keep arriving.
C31_FairMultiplexing ==
    /\ (call["client"].state = "pending")
          ~> (call["client"].state = "answered" \/ ShutdownSignaled)
    /\ ClearQueued ~> (~ClearQueued \/ ShutdownSignaled)
    /\ (Len(AppliedEvents) < Len(forwarded))
          ~> (Len(AppliedEvents) = Len(forwarded) \/ ShutdownSignaled)

C31_Witness ==
    /\ call["client"].state = "answered"
    /\ issued = MaxCommands
    /\ Len(AppliedEvents) = MaxEvents
    /\ async_queue # << >>
    /\ Head(async_queue) = Noise
    /\ \E i \in DOMAIN applied : applied[i].kind = "clear"
    /\ ~ShutdownSignaled

\* CollectorHandle::is_running: the processor task has not finished
is_running == ~ProcessorFinished

\* C32: once the shutdown signal is in the shutdown channel the actor task
\* eventually takes it and terminates, although events keep arriving and
\* commands are still queued, and whether or not the event channel is closed;
\* from then on is_running() is false for good.
C32_ShutdownObserved ==
    /\ (shutdown_queue > 0) ~> ~is_running
    /\ [](ShutdownConsumed => ~is_running)
    /\ [][~is_running => ~is_running']_vars

\* the actor has terminated on the signal while the engine still sends and
\* the bridge still runs, with events and a command left behind
C32_Witness ==
    /\ ShutdownConsumed
    /\ ~is_running
    /\ producer_alive
    /\ bridge_pc \in {"recv", "send"}
    /\ sync_queue # << >>
    /\ Len(AppliedEvents) < Len(forwarded)
    /\ \E i \in DOMAIN applied : applied[i].kind = "clear"

\* the async event channel is closed: start_blocking has returned, which
\* drops async_sender
EventChannelClosed == BridgeFinished

\* C33: once the bridge has ended and dropped its sender, the processing loop
\* of the actor eventually terminates.
C33_ClosedChannelEndsActor == EventChannelClosed ~> ~actor_running

(***************************************************************************)
(* Properties of the published snapshot under delete and clear             *)
(***************************************************************************)
\* subscribers were told that remove_profile or clear_profiles removed k
ExplicitlyRemoved(k) ==
    \E i \in DOMAIN bcast :
        /\ bcast[i].key = k
        /\ bcast[i].update_type = "ProfileRemoved"
        /\ bcast[i].by \in {"remove_profile", "clear_profiles"}

\* C34: when the polling task puts a key back into the snapshot that
\* remove_profile or clear_profiles had removed, the profile it stores is
\* one the actor has merged a new event into: it equals no profile that was
\* ever published under that key before.
C34_RemovedStaysAbsent ==
    [][\A k \in Keys :
          (/\ poll_pc = "notify"
           /\ k \notin DOMAIN snapshot
           /\ k \in DOMAIN snapshot'
           /\ ExplicitlyRemoved(k))
          => \A old \in published : k \in DOMAIN old => old[k] # snapshot'[k]]_vars

\* what update_profiles has to say about key k, given the snapshot it loaded
ExpectedType(old, new, k) ==
    IF k \notin DOMAIN old THEN "ProfileCreated"
    ELSE IF k \notin DOMAIN new THEN "ProfileRemoved"
    ELSE "ProfileUpdated"

\* the keys that differ between the two tables as update_profiles sees it
Changed(old, new) ==
    {k \in DOMAIN old \cup DOMAIN new :
        \/ k \notin DOMAIN old
        \/ k \notin DOMAIN new
        \/ old[k].timestamp # new[k].timestamp}

\* C35: update_profiles(new) loads the previous snapshot, owes one
\* notification to each key that is new, gone or has another timestamp and
\* none to any other key; each notification it sends is for a key it still
\* owes one, of the kind that key calls for (Created: absent before, Removed:
\* absent from new, Updated: in both), with the new profile or none; it
\* stores only when nothing is owed, and then the snapshot is new.
C35_UpdateProfilesClassifies ==
    [][/\ (poll_pc # "notify" /\ poll_pc' = "notify")
            => /\ poll_old' = snapshot
               /\ poll_todo' = Changed(poll_old', poll_new')
       /\ (poll_pc = "notify" /\ bcast' # bcast
             /\ bcast'[Len(bcast')].by = "update_profiles")
            => LET m == bcast'[Len(bcast')]
               IN /\ bcast' = Append(bcast, m)
                  /\ m.key \in poll_todo
                  /\ poll_todo' = poll_todo \ {m.key}
                  /\ m.update_type = ExpectedType(poll_old, poll_new, m.key)
                  /\ m.profile = IF m.key \in DOMAIN poll_new
                                 THEN Some(poll_new[m.key]) ELSE None
       /\ (poll_pc = "notify" /\ poll_pc' = "notify")
            => /\ poll_todo' \subseteq poll_todo
               /\ poll_todo' # poll_todo => bcast' # bcast
               /\ poll_old' = poll_old /\ poll_new' = poll_new
       /\ (poll_pc = "notify" /\ poll_pc' # "notify")
            => /\ poll_todo = {}
               /\ snapshot' = poll_new]_vars

\* the polling task has sent all three kinds and has stored its last table
C35_Witness ==
    /\ \A ty \in {"ProfileCreated", "ProfileUpdated", "ProfileRemoved"} :
          \E i \in DOMAIN bcast :
              bcast[i].by = "update_profiles" /\ bcast[i].update_type = ty
    /\ snapshot # EmptyTable
    /\ polls = MaxPolls
    /\ poll_pc = "idle"

\* C36: clear_profiles loads the snapshot and owes one Removed notification
\* to each of its keys (none when it is empty); every notification it sends
\* is a Removed, without profile, for a key it still owes one; it stores only
\* when nothing is owed, and then the snapshot is empty. remove_profile goes
\* on to its store only for a key the snapshot holds; for an absent key it
\* ends at once, the snapshot and the notifications sent as they were.
C36_ClearAndRemoveAbsent ==
    [][/\ (api_pc = "idle" /\ api_pc' = "clear")
            => /\ api_cur' = snapshot
               /\ api_todo' = DOMAIN snapshot
               /\ bcast' = bcast
       /\ (api_pc = "clear" /\ bcast' # bcast
             /\ bcast'[Len(bcast')].by = "clear_profiles")
            => LET m == bcast'[Len(bcast')]
               IN /\ bcast' = Append(bcast, m)
                  /\ m.update_type = "ProfileRemoved"
                  /\ m.profile = None
                  /\ m.key \in api_todo
                  /\ api_todo' = api_todo \ {m.key}
       /\ (api_pc = "clear" /\ api_pc' = "clear")
            => /\ api_todo' \subseteq api_todo
               /\ api_todo' # api_todo => bcast' # bcast
               /\ api_cur' = api_cur
       /\ (api_pc = "clear" /\ api_pc' # "clear")
            => /\ api_todo = {}
               /\ snapshot' = EmptyTable
       /\ (api_pc = "idle" /\ api_pc' = "store" /\ api_op'.op = "remove")
            => api_op'.key \in DOMAIN snapshot
       /\ (api_pc = "idle" /\ api_pc' = "idle" /\ api_ops' # api_ops)
            => /\ snapshot' = snapshot
               /\ bcast' = bcast]_vars

\* a clear of a table of two profiles has come to its end
C36_Witness ==
    /\ api_pc = "idle"
    /\ api_ops = MaxApiOps
    /\ snapshot = EmptyTable
    /\ Cardinality({i \in DOMAIN bcast : bcast[i].by = "clear_profiles"}) = 2

\* what a table holds under a key
Entry(table, k) == IF k \in DOMAIN table THEN Some(table[k]) ELSE None

\* C37: a session that has received everything sent so far, while no writer
\* is at work, has been told of every key whose profile in the snapshot is
\* not the one of its initial_data: by a profile_update for that key, or by
\* a catch_up.
C37_SessionMissesNoChange ==
    (/\ Len(ws_log) >= 2
     /\ ws_pc = "open"
     /\ ws_next = Len(bcast)
     /\ ~WriteInFlight)
    => \A k \in Keys :
          Entry(snapshot, k) # Entry(ws_log[2].profiles, k)
          => \E i \in 3..Len(ws_log) :
                \/ ws_log[i].type = "catch_up"
                \/ ws_log[i].type = "profile_update" /\ ws_log[i].update.key = k

(***************************************************************************)
(* The processor task ending without a shutdown signal: it panics or the   *)
(* runtime drops it (the JoinError that stop() provides for). stop() takes *)
(* the handle by value, so a query can only be in flight or follow when    *)
(* the task ends this way.                                                 *)
(***************************************************************************)
\* faulty variant: the oneshot sender of a queued command outlives the task
DropReceivers_leak(c) == c

\* the task's receivers are dropped: the oneshot sender inside every queued
\* command goes with the command channel, a waiting rx.await gets RecvError
DropReceivers(c) == IF c.state = "pending" THEN [state |-> "closed"] ELSE c

\* the processor task ends by panic or cancellation
ActorAbort ==
    /\ actor_running
    /\ actor_running' = FALSE
    /\ async_queue' = << >>
    /\ command_queue' = << >>
    /\ call' = [c \in Callers |-> DropReceivers(call[c])]
    /\ UNCHANGED <<ctorVars, producer_alive, sent, sync_queue, bridge_pc, bridge_held, dequeued,
                   forwarded, profiles, clock, applied, stopVars, issued, appVars>>

AbortNext ==
    \/ LiveProducerSend
    \/ BridgeRecv
    \/ BridgeSend
    \/ BridgeSendFail
    \/ ActorEvent
    \/ ActorQuery
    \/ ActorClear
    \/ ActorAbort
    \/ ClientCall
    \/ ClientReturn

SpecAbort == Init /\ [][AbortNext]_vars

\* C38: no query waits on an actor that has terminated: a call made after the
\* actor terminated fails at once, a call waiting for its answer when the
\* actor terminates fails at that moment, and a failed call can return (with
\* its Channel error).
C38_CallsFailOnStoppedActor ==
    /\ [](~actor_running => call["client"].state # "pending")
    /\ [][(~actor_running /\ call["client"].state = "none"
             /\ call'["client"].state # "none")
            => call'["client"].state = "closed"]_vars
    /\ [][(actor_running /\ ~actor_running' /\ call["client"].state = "pending")
            => call'["client"].state = "closed"]_vars
    /\ [](call["client"].state = "closed" => ENABLED ClientReturn)

\* a query has failed on a terminated actor whose table held a profile; it
\* was the second call, the first one was answered
C38_Witness ==
    /\ ~actor_running
    /\ call["client"].state = "closed"
    /\ issued = MaxCommands
    /\ profiles # EmptyTable
    /\ stop_pc = "idle"

\* C39: the events in flight are bounded by the buffer size create_bridge
\* is given: the async queue never holds more than that many events, and
\* neither does the queue between the engine and the bridge.
C39_QueuesBounded ==
    /\ Len(async_queue) <= ChannelBufferSize
    /\ Len(sync_queue) <= ChannelBufferSize

(***************************************************************************)
(* The pipeline of a collector with a quality threshold and TLS analysis   *)
(* switched off, under events that give an analysis and events that give   *)
(* none: MTU only, uptime only, HTTP response only, TLS only, and SYN and   *)
(* HTTP request below the threshold, alone and together.                   *)
(***************************************************************************)
QuietConfig == [DefaultAnalyzerConfig EXCEPT !.min_quality = 40, !.enable_tls = FALSE]

UptimeResult(ip, sig) ==
    [EmptyResult EXCEPT !.uptime = Some([source |-> ip, sig |-> sig])]

QuietEvents(sig) ==
    {SynResult("10.0.0.1", 90, sig),
     SynResult("10.0.0.1", 30, sig),
     HttpRequestResult("10.0.0.1", 30, sig),
     SynAndHttpResult("10.0.0.1", 30, 30, sig),
     HttpResponseResult(ServerIP, "10.0.0.1", 90, sig),
     TlsClientResult("10.0.0.1", sig),
     MtuResult("10.0.0.1", sig),
     UptimeResult("10.0.0.1", sig)}

QuietProducerSend == ProducerSendOf(QuietEvents(sent + 1))

QuietActorEvent == ActorEventWith(QuietConfig)

QuietNext ==
    \/ QuietProducerSend
    \/ BridgeRecv
    \/ BridgeSend
    \/ QuietActorEvent

SpecQuiet == Init /\ [][QuietNext]_vars

\* the event has a sub-record that gives a TCP, HTTP or TLS analysis under
\* config: its category is enabled and, for TCP and HTTP, its quality is not
\* below the threshold
YieldsAnalysis(config, result) ==
    \/ /\ config.enable_tcp
       /\ \E f \in {"syn", "syn_ack"} :
             result[f] # None /\ Unwrap(result[f]).quality >= config.min_quality
    \/ /\ config.enable_http
       /\ result.http_request # None
       /\ Unwrap(result.http_request).quality >= config.min_quality
    \/ /\ config.enable_tls
       /\ result.tls_client # None

\* C40: the event arm leaves the whole profile table as it is when the event
\* yields no TCP, HTTP or TLS analysis: no key is added, no field of any
\* stored profile changes.
C40_NoAnalysisNoChange ==
    [][(/\ Len(applied') = Len(applied) + 1
        /\ applied'[Len(applied')].kind = "event"
        /\ ~YieldsAnalysis(QuietConfig, applied'[Len(applied')].result))
       => profiles' = profiles]_vars

\* events without analysis were applied to an empty table and to a table
\* that held the profile of that IP, the last of them MTU only
C40_Witness ==
    /\ Len(applied) = MaxEvents
    /\ ~YieldsAnalysis(QuietConfig, applied[1].result)
    /\ YieldsAnalysis(QuietConfig, applied[2].result)
    /\ applied[3].result.mtu # None
    /\ DOMAIN profiles = {"10.0.0.1:0"}

=============================================================================
